---- MODULE Spec2Model ----
(***************************************************************************)
(* Call Session & Switch Orchestration.                                    *)
(*                                                                         *)
(* The session store (createSession / getSession / updateSession /         *)
(* appendTranscript) and the POST /api/switch route are translated from    *)
(* the sources.  The switch service (canSwitch, executeSwitch,             *)
(* getSwitchStats) and the session lifecycle manager are not among the     *)
(* sources; they are modelled from the specification, sections 4.2, 4.4.   *)
(***************************************************************************)
EXTENDS Integers, Sequences, FiniteSets, TLC

\* ---------------------------------------------------------------- bounds
NReq == 3            \* switch requests submitted in one behaviour
MaxFaults == 1       \* failing operations of the primary backend
MaxTranscript == 1   \* transcript entries appended to one call
NTask == 3           \* concurrent calls of the session store functions
MaxCalls == 3        \* length of a sequence of session store calls
MaxTicks == 2        \* clock advances within such a sequence
NCaller == 3         \* calls that need the Redis connection
MaxAttempts == 2     \* Redis clients created by connectRedis
MaxEvents == 3       \* events published through the EventBus
MaxStarts == 2       \* call-started signals for one callId

\* POST /api/switch requests received, bodies that fail validation included
MaxPosts == 2

MaxButtonCalls == 2  \* calls started from the call button
MaxTime == 6         \* seconds the call button is observed for
MaxTimers == 2       \* reset timers of the call button pending at once

MaxAnalyses == 3     \* generateCopilotAnalysis calls
MaxEntries == 2      \* entries of a transcript handed to the copilot

\* ------------------------------------------------------------- constants
CallIds == {"c1"}
Directions == {"AI_TO_HUMAN", "HUMAN_TO_AI"}
Speakers == {"CUSTOMER"}
Reqs == 1..NReq
TaskIds == 1..NTask
StoreOps == {"create", "update", "append", "delete", "switch"}

Null == "null"       \* endTime before the call has ended
Now == "now"         \* any wall-clock timestamp (Date.now())
NoReq == 0           \* the per-call lock is free

VARIABLES
    store,        \* the active backend: callId -> stored CallSession
    useInMemory,  \* TRUE: process-local fallback storage is in use
    faults,       \* primary-backend operations that have failed so far
    switchLog,    \* callId -> sequence of SwitchLogEntry (direction)
    published,    \* callId -> sequence of events handed to the EventBus
    lock,         \* callId -> request holding the per-call lock, or NoReq
    pc,           \* request -> position in the POST /api/switch handler
    req,          \* request -> body of the request {callId, direction}
    validated,    \* request -> session read by the re-validation under lock
    response,     \* request -> HTTP answer given to the caller
    seen,         \* request -> session state observed when it was submitted
    commitNo,     \* request -> switchCount its commit produced (0: none)
    faulted,      \* request -> a storage operation of this request failed
    outcome,      \* request -> how the request ended ("none": not yet)
    tasks,        \* task -> a running call of a session store function
    redisKeys,    \* the session keys held by the Redis server
    inMemoryStore,\* the fallback Map of the process
    clock,        \* Date.now(), in milliseconds
    ncalls,       \* calls made in the sequence so far
    nticks,       \* clock advances so far
    lastCall,     \* the last call and what it returned on either backend
    redis,        \* the module's client: NoClient (null) or a client id
    isConnecting, \* the module's flag: a connection attempt is under way
    clientStatus, \* client id -> state of that ioredis client
    callers,      \* caller -> a call that needs the connection
    subs,         \* callId -> the subscribers the EventBus holds for it
    inbox,        \* subscriber -> events on their way to the dashboard
    callState,    \* subscriber -> the CallState of its dashboard
    got,          \* subscriber -> the events its dashboard has handled
    sent,         \* the events published so far, with their recipients
    started,      \* callId -> what each call-started signal found stored
    buttonStatus, \* CallButton: the status state of the component
    timers,       \* CallButton: the pending setTimeout resets, oldest first
    widgetNow,    \* CallButton: the time, in seconds
    retellCall,   \* the Retell web client's call: "off", "joining", "on"
    starting,     \* CallButton: startCall invocations waiting in an await
    callNo,       \* CallButton: calls started so far
    lastReset,    \* CallButton: the last timer that fired, and what it found
    contextCache, \* llmService: sessionId -> ConversationContext
    analyses,     \* llmService: sessionId -> its latest copilot call
    copilotNow    \* llmService: Date.now()

taskVars == <<tasks>>
twinVars == <<redisKeys, inMemoryStore, clock, ncalls, nticks, lastCall>>
connVars == <<redis, isConnecting, clientStatus, callers>>
busVars == <<subs, inbox, callState, got, sent, started>>
widgetVars == <<buttonStatus, timers, widgetNow, retellCall, starting, callNo,
                lastReset>>
copilotVars == <<contextCache, analyses, copilotNow>>
sideVars == <<widgetVars, copilotVars>>
storeVars == <<taskVars, twinVars, connVars, busVars, sideVars>>
requestVars == <<pc, req, validated, response, seen, commitNo, faulted,
                 outcome>>
routeVars == <<published, requestVars>>

vars == <<store, useInMemory, faults, switchLog, published, lock, pc, req,
          validated, response, seen, commitNo, faulted, outcome, storeVars>>

\* ------------------------------------------------------------ data model
NewSession(c) ==
    [callId |-> c, status |-> "ACTIVE", mode |-> "AI_AGENT",
     transcript |-> <<>>, switchCount |-> 0, endTime |-> Null]

NoSession == [callId |-> "", status |-> "NONE", mode |-> "NONE",
              transcript |-> <<>>, switchCount |-> 0, endTime |-> Null]

\* what a request observes of the session at its arrival
Snapshot(session) ==
    [status |-> session.status, mode |-> session.mode,
     switchCount |-> session.switchCount]

TargetMode(d) == IF d = "AI_TO_HUMAN" THEN "HUMAN_REP" ELSE "AI_AGENT"
SourceMode(d) == IF d = "AI_TO_HUMAN" THEN "AI_AGENT" ELSE "HUMAN_REP"

\* ---------------------------------------------------------- session store
\* Faulty getSession: a failing read is answered with a default session.
GetSession_FailOpen(st, c, readFails) ==
    IF readFails THEN NewSession(c)
    ELSE IF c \in DOMAIN st THEN st[c] ELSE NoSession

\* getSession: the stored snapshot, or null (NoSession) when the key is
\* absent; a failing read is caught and answered with null as well.
GetSession(st, c, readFails) ==
    IF readFails THEN NoSession
    ELSE IF c \in DOMAIN st THEN st[c] ELSE NoSession

\* createSession: SETEX / Map.set of the whole session under the key.
CreateSession(st, c, session) ==
    [k \in DOMAIN st \cup {c} |-> IF k = c THEN session ELSE st[k]]

\* Faulty merges: { ...updates, ...current } (the stored values win), and
\* a merge that forgets ...current (the other keys fall back to defaults).
Merge_CurrentWins(current, updates) == current

Merge_NoSpread(current, updates) ==
    [k \in DOMAIN current |->
        IF k \in DOMAIN updates THEN updates[k] ELSE NewSession("")[k]]

\* Faulty merge: the endTime of the updates is dropped.
Merge_DropEndTime(current, updates) ==
    [k \in DOMAIN current |->
        IF k \in DOMAIN updates \ {"endTime"} THEN updates[k]
        ELSE current[k]]

\* { ...current, ...updates }: keys of updates win, the others are kept.
Merge(current, updates) ==
    [k \in DOMAIN current |->
        IF k \in DOMAIN updates THEN updates[k] ELSE current[k]]

\* Faulty updateSession: the write reaches the backend although it throws.
UpdateSession_PartialWrite(st, c, updates, readFails, writeFails) ==
    LET current == GetSession(st, c, readFails) IN
    IF current = NoSession
      THEN [store |-> st, ret |-> NoSession, threw |-> FALSE]
      ELSE [store |-> CreateSession(st, c, Merge(current, updates)),
            ret |-> IF writeFails THEN NoSession
                    ELSE Merge(current, updates),
            threw |-> writeFails]

\* updateSession: fetch, merge, store.  Result: the store afterwards, the
\* returned session (NoSession for null) and whether the write threw.
UpdateSession(st, c, updates, readFails, writeFails) ==
    LET current == GetSession(st, c, readFails) IN
    IF current = NoSession
      THEN [store |-> st, ret |-> NoSession, threw |-> FALSE]
      ELSE IF writeFails
             THEN [store |-> st, ret |-> NoSession, threw |-> TRUE]
             ELSE [store |-> CreateSession(st, c, Merge(current, updates)),
                   ret |-> Merge(current, updates), threw |-> FALSE]

\* appendTranscript: fetch, push one entry, store; no-op without a session.
AppendTranscript(st, c, speaker) ==
    LET session == GetSession(st, c, FALSE) IN
    IF session = NoSession THEN st
    ELSE CreateSession(st, c,
            [session EXCEPT !.transcript = Append(@, speaker)])

\* --------------------------------------------------------- switch service
\* canSwitch evaluated on a session snapshot.
CanSwitchOn(session, d) ==
    IF session = NoSession
      THEN [allowed |-> FALSE, reason |-> "Call session not found"]
    ELSE IF session.status = "ENDED"
      THEN [allowed |-> FALSE, reason |-> "Call has ended"]
    ELSE IF session.mode = TargetMode(d)
      THEN [allowed |-> FALSE,
            reason |-> IF d = "AI_TO_HUMAN" THEN "Already in HUMAN_REP mode"
                                            ELSE "Already in AI_AGENT mode"]
    ELSE [allowed |-> TRUE, reason |-> ""]

CanSwitch(c, d) == CanSwitchOn(GetSession(store, c, FALSE), d)

\* getSwitchStats: aggregate over the SwitchLogEntry rows of the call.
CountDir(log, d) == Cardinality({i \in 1..Len(log) : log[i] = d})

GetSwitchStats(c) ==
    [total |-> Len(switchLog[c]),
     byDirection |-> [aiToHuman |-> CountDir(switchLog[c], "AI_TO_HUMAN"),
                      humanToAi |-> CountDir(switchLog[c], "HUMAN_TO_AI")]]

\* -------------------------------------------------------------- responses
NoResponse == [status |-> 0, success |-> FALSE, error |-> "", newMode |-> ""]
Rejected(code, why) ==
    [status |-> code, success |-> FALSE, error |-> why, newMode |-> ""]
Succeeded(m) == [status |-> 200, success |-> TRUE, error |-> "", newMode |-> m]

\* executeSwitch results
Failure(why) == [success |-> FALSE, error |-> why, newMode |-> ""]
Success(m) == [success |-> TRUE, error |-> "", newMode |-> m]

\* Faulty route: the executeSwitch result is answered without looking at
\* result.success.
ExecuteAnswer_AlwaysOk(result) == Succeeded(result.newMode)

\* The route's answer to an executeSwitch result: 200 with newMode on
\* success, 500 with the result's error otherwise.
ExecuteAnswer(result) ==
    IF result.success THEN Succeeded(result.newMode)
    ELSE Rejected(500, result.error)

\* Faulty route: a switch that is not allowed is answered as a no-op success.
CanSwitchAnswer_NoOp(res) == Succeeded("")

\* The route's answer to a canSwitch result that is not allowed.
CanSwitchAnswer(res) == Rejected(400, res.reason)

\* a call of a store function that has not been made yet
IdleTask == [op |-> "none", pc |-> "idle", callId |-> "", dir |-> "",
             count |-> 0, cur |-> NoSession, ret |-> "none"]

NoEntry == [data |-> <<>>, expiry |-> 0]

\* the ids a dashboard may join: the call, and an id without a call
BusIds == CallIds \cup {"c2"}
Subscribers == {"s1"}
\* the dashboard's state before it joins a call
initialCallState == [callId |-> Null, status |-> "idle", mode |-> "AI_AGENT",
                     switchCount |-> 0]

Callers == 1..NCaller
Clients == 1..MaxAttempts
NoClient == 0
\* a call that has not been made yet
IdleCaller == [fn |-> "none", callId |-> "", pc |-> "idle",
               client |-> NoClient, joined |-> NoClient, polled |-> FALSE,
               failed |-> FALSE, fallback |-> FALSE, early |-> FALSE,
               written |-> FALSE, ret |-> "none"]
NoCall == [op |-> "none", callId |-> "", had |-> FALSE, redis |-> "none",
           memory |-> "none"]

\* no reset timer has fired yet
NoReset == [by |-> 0, at |-> 0, from |-> "idle"]
\* what getContext builds for a session it has not seen
\* (its transcript field is written and never read, and is left out)
NoContext == [lastAnalyzedIndex |-> 0, customerSentiment |-> "neutral",
              isEmergency |-> FALSE, lastCopilotUpdate |-> 0]
\* no generateCopilotAnalysis call yet, or none since clearContext
NoPrevious == 0 - 1
NoAnalysis == [op |-> "none", at |-> 0, len |-> 0, previous |-> NoPrevious,
               isEmergency |-> FALSE, customerSentiment |-> "neutral",
               minimal |-> FALSE, phase |-> "done", suggestions |-> {},
               priority |-> "low", detached |-> "none"]
SessionIds == {"s1"}

CanFail == ~useInMemory /\ faults < MaxFaults
FailChoices == IF CanFail THEN {FALSE, TRUE} ELSE {FALSE}

Init ==
    /\ store = [k \in {} |-> NoSession]
    /\ useInMemory \in BOOLEAN
    /\ faults = 0
    /\ switchLog = [c \in CallIds |-> <<>>]
    /\ published = [c \in CallIds |-> <<>>]
    /\ lock = [c \in CallIds |-> NoReq]
    /\ pc = [r \in Reqs |-> "idle"]
    /\ req = [r \in Reqs |-> [callId |-> "", direction |-> ""]]
    /\ validated = [r \in Reqs |-> NoSession]
    /\ response = [r \in Reqs |-> NoResponse]
    /\ seen = [r \in Reqs |-> Snapshot(NoSession)]
    /\ commitNo = [r \in Reqs |-> 0]
    /\ faulted = [r \in Reqs |-> FALSE]
    /\ outcome = [r \in Reqs |-> "none"]
    /\ tasks = [t \in TaskIds |-> IdleTask]
    /\ redisKeys = [k \in {} |-> NoEntry]
    /\ inMemoryStore = [k \in {} |-> NoEntry]
    /\ clock = 0
    /\ ncalls = 0
    /\ nticks = 0
    /\ lastCall = NoCall
    /\ redis = NoClient
    /\ isConnecting = FALSE
    /\ clientStatus = [a \in Clients |-> "unused"]
    /\ callers = [k \in Callers |-> IdleCaller]
    /\ subs = [c \in BusIds |-> {}]
    /\ inbox = [s \in Subscribers |-> <<>>]
    /\ callState = [s \in Subscribers |-> initialCallState]
    /\ got = [s \in Subscribers |-> <<>>]
    /\ sent = <<>>
    /\ started = [c \in CallIds |-> <<>>]
    /\ buttonStatus = "idle"
    /\ timers = <<>>
    /\ widgetNow = 0
    /\ retellCall = "off"
    /\ starting = 0
    /\ callNo = 0
    /\ lastReset = NoReset
    /\ contextCache = [k \in {} |-> NoContext]
    /\ analyses = [sid \in SessionIds |-> NoAnalysis]
    /\ copilotNow = 1

\* ------------------------------------------------------- session lifecycle
\* onCallStarted: a duplicate start of an existing session is a no-op.
OnCallStarted(c) ==
    /\ lock[c] = NoReq
    /\ c \notin DOMAIN store
    /\ store' = CreateSession(store, c, NewSession(c))
    /\ UNCHANGED storeVars
    /\ UNCHANGED <<useInMemory, faults, switchLog, published, lock, pc, req,
                   validated, response, seen, commitNo, faulted, outcome>>

\* onTranscriptChunk: appendTranscript, then a transcript event.
OnTranscriptChunk(c, speaker) ==
    /\ lock[c] = NoReq
    /\ c \in DOMAIN store
    /\ Len(store[c].transcript) < MaxTranscript
    /\ store' = AppendTranscript(store, c, speaker)
    /\ published' = [published EXCEPT ![c] = Append(@, "transcript:update")]
    /\ UNCHANGED storeVars
    /\ UNCHANGED <<useInMemory, faults, switchLog, lock, pc, req, validated,
                   response, seen, commitNo, faulted, outcome>>

\* onCallEnded: status = ENDED, endTime = now, then the call-end event.
OnCallEnded(c) ==
    /\ lock[c] = NoReq
    /\ c \in DOMAIN store
    /\ store[c].status # "ENDED"
    /\ store' = UpdateSession(store, c,
                    [status |-> "ENDED", endTime |-> Now], FALSE, FALSE).store
    /\ published' = [published EXCEPT ![c] = Append(@, "call:end")]
    /\ UNCHANGED storeVars
    /\ UNCHANGED <<useInMemory, faults, switchLog, lock, pc, req, validated,
                   response, seen, commitNo, faulted, outcome>>

\* ------------------------------------------------------- POST /api/switch
\* The request arrives with a callId and a well-formed direction.
Submit(r, c, d) ==
    /\ pc[r] = "idle"
    /\ IF r = 1 THEN TRUE ELSE pc[r - 1] # "idle"
    /\ pc' = [pc EXCEPT ![r] = "canSwitch"]
    /\ req' = [req EXCEPT ![r] = [callId |-> c, direction |-> d]]
    /\ seen' = [seen EXCEPT ![r] = Snapshot(GetSession(store, c, FALSE))]
    /\ UNCHANGED storeVars
    /\ UNCHANGED <<store, useInMemory, faults, switchLog, published, lock,
                   validated, response, commitNo, faulted, outcome>>

\* await canSwitch(callId, direction); 400 with the reason when not allowed.
CheckAllowed(r) ==
    /\ pc[r] = "canSwitch"
    /\ \E readFails \in FailChoices :
         LET res == CanSwitchOn(GetSession(store, req[r].callId, readFails),
                                req[r].direction) IN
         /\ faults' = IF readFails THEN faults + 1 ELSE faults
         /\ faulted' = [faulted EXCEPT ![r] = @ \/ readFails]
         /\ IF res.allowed
              THEN /\ pc' = [pc EXCEPT ![r] = "execute"]
                   /\ UNCHANGED <<response, outcome>>
              ELSE /\ pc' = [pc EXCEPT ![r] = "done"]
                   /\ outcome' = [outcome EXCEPT ![r] = "blocked"]
                   /\ response' = [response EXCEPT
                                     ![r] = CanSwitchAnswer(res)]
    /\ UNCHANGED storeVars
    /\ UNCHANGED <<store, useInMemory, switchLog, published, lock, req,
                   validated, seen, commitNo>>

\* executeSwitch, first step: take the per-call lock.
Acquire(r) ==
    /\ pc[r] = "execute"
    /\ lock[req[r].callId] = NoReq
    /\ lock' = [lock EXCEPT ![req[r].callId] = r]
    /\ pc' = [pc EXCEPT ![r] = "locked"]
    /\ UNCHANGED storeVars
    /\ UNCHANGED <<store, useInMemory, faults, switchLog, published, req,
                   validated, response, seen, commitNo, faulted, outcome>>

\* executeSwitch, second step: canSwitch again, now under the lock.  A
\* failure is returned as {success: false, error}; the route answers 500.
Revalidate(r) ==
    /\ pc[r] = "locked"
    /\ \E readFails \in FailChoices :
         LET session == GetSession(store, req[r].callId, readFails)
             res == CanSwitchOn(session, req[r].direction) IN
         /\ faults' = IF readFails THEN faults + 1 ELSE faults
         /\ faulted' = [faulted EXCEPT ![r] = @ \/ readFails]
         /\ IF res.allowed
              THEN /\ pc' = [pc EXCEPT ![r] = "commit"]
                   /\ validated' = [validated EXCEPT ![r] = session]
                   /\ UNCHANGED <<lock, response, outcome>>
              ELSE /\ pc' = [pc EXCEPT ![r] = "done"]
                   /\ outcome' = [outcome EXCEPT ![r] = "conflict"]
                   /\ lock' = [lock EXCEPT ![req[r].callId] = NoReq]
                   /\ response' = [response EXCEPT
                                     ![r] = ExecuteAnswer(Failure(res.reason))]
                   /\ UNCHANGED validated
    /\ UNCHANGED storeVars
    /\ UNCHANGED <<store, useInMemory, switchLog, published, req, seen,
                   commitNo>>

\* executeSwitch, third step: the commit.  updateSession writes the mode
\* and the incremented switchCount; then the SwitchLogEntry is appended and
\* the switch event published; the lock is released and the route answers.
Commit(r) ==
    /\ pc[r] = "commit"
    /\ \E readFails \in FailChoices, writeFails \in FailChoices :
         LET c == req[r].callId
             d == req[r].direction
             upd == UpdateSession(store, c,
                       [mode |-> TargetMode(d),
                        switchCount |-> validated[r].switchCount + 1],
                       readFails, writeFails)
             failed == readFails \/ upd.threw
             result == IF upd.threw THEN Failure("Storage error")
                       ELSE IF upd.ret = NoSession
                              THEN Failure("Call session not found")
                       ELSE Success(upd.ret.mode) IN
         /\ ~(readFails /\ writeFails)
         /\ faults' = IF failed THEN faults + 1 ELSE faults
         /\ faulted' = [faulted EXCEPT ![r] = @ \/ failed]
         /\ store' = upd.store
         /\ switchLog' = IF result.success
                            THEN [switchLog EXCEPT ![c] = Append(@, d)]
                            ELSE switchLog
         /\ published' = IF result.success
                            THEN [published EXCEPT
                                    ![c] = Append(@, "call:switch")]
                            ELSE published
         /\ commitNo' = IF result.success
                           THEN [commitNo EXCEPT ![r] = upd.ret.switchCount]
                           ELSE commitNo
         /\ outcome' = [outcome EXCEPT
                          ![r] = IF result.success THEN "committed"
                                 ELSE "storage"]
         /\ response' = [response EXCEPT ![r] = ExecuteAnswer(result)]
         /\ lock' = [lock EXCEPT ![c] = NoReq]
    /\ pc' = [pc EXCEPT ![r] = "done"]
    /\ validated' = [validated EXCEPT ![r] = NoSession]
    /\ UNCHANGED storeVars
    /\ UNCHANGED <<useInMemory, req, seen>>

Next ==
    \/ \E c \in CallIds : OnCallStarted(c)
    \/ \E c \in CallIds, s \in Speakers : OnTranscriptChunk(c, s)
    \/ \E c \in CallIds : OnCallEnded(c)
    \/ \E r \in Reqs, c \in CallIds, d \in Directions : Submit(r, c, d)
    \/ \E r \in Reqs : CheckAllowed(r)
    \/ \E r \in Reqs : Acquire(r)
    \/ \E r \in Reqs : Revalidate(r)
    \/ \E r \in Reqs : Commit(r)

Spec == Init /\ [][Next]_vars

\* ------------------------------------------- the route with any body
\* POST /api/switch receives bodies of any form: the callId may be
\* missing and the direction may be missing or not a direction.
MissingCallId == ""
BodyCallIds == CallIds \cup {MissingCallId}
BodyDirections == Directions \cup {"", "SIDEWAYS"}

\* Faulty validation: the direction is not examined.
Validate_NoDirection(c, d) ==
    IF c = MissingCallId THEN Rejected(400, "callId is required")
    ELSE NoResponse

\* the validation at the head of the handler: the client error it answers
\* with, or NoResponse when the body passes
Validate(c, d) ==
    IF c = MissingCallId THEN Rejected(400, "callId is required")
    ELSE IF d = "" \/ d \notin Directions
      THEN Rejected(400, "direction must be AI_TO_HUMAN or HUMAN_TO_AI")
    ELSE NoResponse

\* router.post("/"): a body that fails the validation is answered at once
\* and the handler returns; any other goes on to canSwitch
Post(r, c, d) ==
    /\ r <= MaxPosts
    /\ IF Validate(c, d) = NoResponse
         THEN Submit(r, c, d)
         ELSE /\ pc[r] = "idle"
              /\ IF r = 1 THEN TRUE ELSE pc[r - 1] # "idle"
              /\ pc' = [pc EXCEPT ![r] = "done"]
              /\ req' = [req EXCEPT ![r] = [callId |-> c, direction |-> d]]
              /\ response' = [response EXCEPT ![r] = Validate(c, d)]
              /\ outcome' = [outcome EXCEPT ![r] = "invalid"]
              /\ UNCHANGED storeVars
              /\ UNCHANGED <<store, useInMemory, faults, switchLog,
                             published, lock, validated, seen, commitNo,
                             faulted>>

NextRoute ==
    \/ \E c \in CallIds : OnCallStarted(c)
    \/ \E c \in CallIds, s \in Speakers : OnTranscriptChunk(c, s)
    \/ \E c \in CallIds : OnCallEnded(c)
    \/ \E r \in Reqs, c \in BodyCallIds, d \in BodyDirections : Post(r, c, d)
    \/ \E r \in Reqs : CheckAllowed(r)
    \/ \E r \in Reqs : Acquire(r)
    \/ \E r \in Reqs : Revalidate(r)
    \/ \E r \in Reqs : Commit(r)

SpecRoute == Init /\ [][NextRoute]_vars

\* ------------------------------------------------- calls of the store
\* The exported functions of the session store are async: between the
\* awaited getSession and the awaited createSession of one call, steps of
\* other calls run.  A task is one call; executeSwitch is the only caller
\* that holds the per-call lock around its validate + updateSession.

\* the transcript entry pushed by the appendTranscript call of task t
Entry(t) == [speaker |-> "CUSTOMER", text |-> t]

\* the session a call hands to createSession
Written(t) ==
    LET k == tasks[t] IN
    CASE k.op = "create" -> NewSession(k.callId)
      [] k.op = "update" -> Merge(k.cur, [status |-> "ENDED",
                                          endTime |-> Now])
      [] k.op = "append" -> [k.cur EXCEPT !.transcript = Append(@, Entry(t))]
      [] k.op = "switch" -> Merge(k.cur, [mode |-> TargetMode(k.dir),
                                          switchCount |-> k.count + 1])

\* Faulty delete: the key is left in place.
RemoveKey_Noop(st, c) == st

RemoveKey(st, c) == [k \in DOMAIN st \ {c} |-> st[k]]

\* a call is made: createSession, updateSession({status, endTime}),
\* appendTranscript, deleteSession or executeSwitch
CallStore(t, op, c, d) ==
    /\ tasks[t].pc = "idle"
    /\ IF t = 1 THEN TRUE ELSE tasks[t - 1].pc # "idle"
    /\ (op = "switch") = (d \in Directions)
    /\ tasks' = [tasks EXCEPT ![t] =
                   [IdleTask EXCEPT !.op = op, !.callId = c, !.dir = d,
                      !.pc = CASE op = "create" -> "store"
                               [] op = "delete" -> "remove"
                               [] op = "switch" -> "check"
                               [] OTHER -> "fetch"]]
    /\ UNCHANGED <<store, useInMemory, faults, switchLog, lock>>
    /\ UNCHANGED <<routeVars, twinVars, connVars, busVars, sideVars>>

\* executeSwitch: take the per-call lock and validate under it
Check(t) ==
    LET k == tasks[t]
        c == k.callId IN
    /\ k.pc = "check"
    /\ lock[c] = NoReq
    /\ \E readFails \in FailChoices :
         LET session == GetSession(store, c, readFails)
             res == CanSwitchOn(session, k.dir) IN
         /\ faults' = IF readFails THEN faults + 1 ELSE faults
         /\ IF res.allowed
              THEN /\ lock' = [lock EXCEPT ![c] = t]
                   /\ tasks' = [tasks EXCEPT ![t].pc = "fetch",
                                             ![t].count = session.switchCount]
              ELSE /\ lock' = lock
                   /\ tasks' = [tasks EXCEPT ![t].pc = "done",
                                             ![t].ret = res.reason]
    /\ UNCHANGED <<store, useInMemory, switchLog>>
    /\ UNCHANGED <<routeVars, twinVars, connVars, busVars, sideVars>>

\* updateSession / appendTranscript: const current = await getSession(..)
Fetch(t) ==
    LET k == tasks[t]
        c == k.callId IN
    /\ k.pc = "fetch"
    /\ \E readFails \in FailChoices :
         LET session == GetSession(store, c, readFails) IN
         /\ faults' = IF readFails THEN faults + 1 ELSE faults
         /\ IF session = NoSession
              THEN /\ tasks' = [tasks EXCEPT ![t].pc = "done",
                                             ![t].ret = "null"]
                   /\ lock' = IF k.op = "switch"
                                THEN [lock EXCEPT ![c] = NoReq] ELSE lock
              ELSE /\ tasks' = [tasks EXCEPT ![t].pc = "store",
                                             ![t].cur = session]
                   /\ lock' = lock
    /\ UNCHANGED <<store, useInMemory, switchLog>>
    /\ UNCHANGED <<routeVars, twinVars, connVars, busVars, sideVars>>

\* await createSession(callId, ...): the whole session is written; a
\* failing SETEX rejects and the call throws.  executeSwitch goes on to
\* its log entry after the write and gives up the lock when it threw.
Store(t) ==
    LET k == tasks[t]
        c == k.callId IN
    /\ k.pc = "store"
    /\ \E writeFails \in FailChoices :
         /\ faults' = IF writeFails THEN faults + 1 ELSE faults
         /\ store' = IF writeFails THEN store
                     ELSE CreateSession(store, c, Written(t))
         /\ tasks' = [tasks EXCEPT
                        ![t].pc = IF k.op = "switch" /\ ~writeFails
                                    THEN "log" ELSE "done",
                        ![t].ret = IF writeFails THEN "threw" ELSE "ok"]
         /\ lock' = IF k.op = "switch" /\ writeFails
                      THEN [lock EXCEPT ![c] = NoReq] ELSE lock
    /\ UNCHANGED <<useInMemory, switchLog>>
    /\ UNCHANGED <<routeVars, twinVars, connVars, busVars, sideVars>>

\* executeSwitch after its session write: the SwitchLogEntry is appended
LogSwitch(t) ==
    LET k == tasks[t] IN
    /\ k.pc = "log"
    /\ switchLog' = [switchLog EXCEPT ![k.callId] = Append(@, k.dir)]
    /\ tasks' = [tasks EXCEPT ![t].pc = "publish"]
    /\ UNCHANGED <<store, useInMemory, faults, lock>>
    /\ UNCHANGED <<routeVars, twinVars, connVars, busVars, sideVars>>

\* executeSwitch, last effect: the switch event is published, then the
\* per-call lock is released
PublishSwitch(t) ==
    LET k == tasks[t] IN
    /\ k.pc = "publish"
    /\ published' = [published EXCEPT ![k.callId] = Append(@, "call:switch")]
    /\ lock' = [lock EXCEPT ![k.callId] = NoReq]
    /\ tasks' = [tasks EXCEPT ![t].pc = "done"]
    /\ UNCHANGED <<store, useInMemory, faults, switchLog>>
    /\ UNCHANGED <<requestVars, twinVars, connVars, busVars, sideVars>>

\* deleteSession: DEL / Map.delete of the key
Remove(t) ==
    LET k == tasks[t] IN
    /\ k.pc = "remove"
    /\ store' = RemoveKey(store, k.callId)
    /\ tasks' = [tasks EXCEPT ![t].pc = "done", ![t].ret = "ok"]
    /\ UNCHANGED <<useInMemory, faults, switchLog, lock>>
    /\ UNCHANGED <<routeVars, twinVars, connVars, busVars, sideVars>>

NextStore ==
    \/ \E t \in TaskIds, op \in StoreOps, c \in CallIds,
          d \in Directions \cup {""} : CallStore(t, op, c, d)
    \/ \E t \in TaskIds : Check(t)
    \/ \E t \in TaskIds : Fetch(t)
    \/ \E t \in TaskIds : Store(t)
    \/ \E t \in TaskIds : LogSwitch(t)
    \/ \E t \in TaskIds : PublishSwitch(t)
    \/ \E t \in TaskIds : Remove(t)

SpecStore == Init /\ [][NextStore]_vars

\* ------------------------------------------------------------ vocabulary
Done(r) == pc[r] = "done"
CallOf(r) == req[r].callId
DirOf(r) == req[r].direction
Live(c) == c \in DOMAIN store /\ store[c].status # "ENDED"
ConflictReason(d) ==
    IF d = "AI_TO_HUMAN" THEN "Already in HUMAN_REP mode"
    ELSE "Already in AI_AGENT mode"

\* S is a batch of requests for call c submitted concurrently: each of them
\* arrived while the session was live with switchCount k and mode m, all of
\* them have been answered, and no request outside S committed since.
Batch(S, c, k, m) ==
    /\ \A r \in S : /\ Done(r)
                     /\ CallOf(r) = c
                     /\ seen[r] = [status |-> "ACTIVE", mode |-> m,
                                   switchCount |-> k]
    /\ \A r \in Reqs \ S : commitNo[r] <= k \/ CallOf(r) # c

NoFault(S) == \A r \in S : ~faulted[r]
Winners(S) == {r \in S : outcome[r] = "committed"}

OppositeRace(a, h) ==
    /\ a # h
    /\ Batch({a, h}, CallOf(a), seen[a].switchCount, "AI_AGENT")
    /\ DirOf(a) = "AI_TO_HUMAN" /\ DirOf(h) = "HUMAN_TO_AI"
    /\ NoFault({a, h})
    /\ Live(CallOf(a))

C5_NoSelfTransition ==
    /\ [](\A c \in DOMAIN store, d \in Directions :
            store[c].mode = TargetMode(d)
            => /\ ~CanSwitch(c, d).allowed
               /\ CanSwitch(c, d).reason # "")
    /\ [][\A r \in Reqs :
            (/\ pc[r] \in {"canSwitch", "locked", "commit"}
             /\ pc'[r] # pc[r]
             /\ CallOf(r) \in DOMAIN store
             /\ store[CallOf(r)].mode = TargetMode(DirOf(r)))
            => /\ pc'[r] = "done"
               /\ ~response'[r].success
               /\ response'[r].status \in {400, 500}
               /\ response'[r].error # ""
               /\ store' = store
               /\ switchLog' = switchLog
               /\ published' = published]_vars

\* C5 witness: one self-transition request was rejected by the route's
\* canSwitch and another one by the re-validation under the lock.
C5_Witness ==
    \E r1 \in Reqs, r2 \in Reqs :
        /\ outcome[r1] = "blocked" /\ ~faulted[r1]
        /\ response[r1].error = ConflictReason(DirOf(r1))
        /\ outcome[r2] = "conflict" /\ ~faulted[r2]
        /\ response[r2].error = ConflictReason(DirOf(r2))

C7_SuccessOnlyIfCommitted ==
    /\ [](\A r \in Reqs :
            /\ response[r].success
                 => (outcome[r] = "committed" /\ response[r].status = 200)
            /\ outcome[r] = "storage"
                 => (~response[r].success /\ response[r].status = 500))
    /\ [][\A r \in Reqs :
            (response'[r].success /\ ~response[r].success)
            => /\ CallOf(r) \in DOMAIN store
               /\ CallOf(r) \in DOMAIN store'
               /\ response'[r].newMode = TargetMode(DirOf(r))
               /\ store'[CallOf(r)].mode = response'[r].newMode
               /\ store[CallOf(r)].mode # response'[r].newMode]_vars

\* C7 witness: one request was answered with a success, another one failed
\* on a storage error in its commit.
C7_Witness ==
    \E r1 \in Reqs, r2 \in Reqs :
        /\ response[r1] = Succeeded(TargetMode(DirOf(r1)))
        /\ outcome[r2] = "storage" /\ faulted[r2] /\ Done(r2)

\* error classes of an answer
ClientError(status) == status \in 400..499
InternalError(status) == status \in 500..599

\* r passed the route's canSwitch and then found, holding the lock, that a
\* concurrent request had already put the call into its target mode.
RaceLost(r) ==
    /\ Done(r)
    /\ outcome[r] = "conflict"
    /\ ~faulted[r]
    /\ response[r].error = ConflictReason(DirOf(r))

\* C8 - race loss is a conflict.  A request that lost the race for the
\* per-call lock is answered, the answer carries the canSwitch reason and
\* is a conflict (client) error, not the internal error class of a storage
\* failure.
C8_RaceLossIsConflict ==
    \A r \in Reqs :
        RaceLost(r)
        => /\ response[r].status # 0
           /\ ~response[r].success
           /\ response[r].error = ConflictReason(DirOf(r))
           /\ ClientError(response[r].status)
           /\ ~InternalError(response[r].status)

\* causes of a rejected request: the callId has no session; a storage
\* operation failed although the session was there when the request arrived
NotFoundCause(r) ==
    /\ Done(r) /\ ~faulted[r]
    /\ response[r].error = "Call session not found"
StorageCause(r) == Done(r) /\ faulted[r] /\ seen[r].status = "ACTIVE"

\* C9 - not-found and storage failure are distinguishable.  A request for a
\* callId without a session is answered with a client error (not found); a
\* storage failure during the commit is answered with an internal error;
\* and no request that hit a storage failure gets the answer of a request
\* whose call was not found.
C9_NotFoundVsStorage ==
    /\ \A r \in Reqs :
          NotFoundCause(r) => ClientError(response[r].status)
    /\ \A r \in Reqs :
          outcome[r] = "storage" => InternalError(response[r].status)
    /\ \A r1 \in Reqs, r2 \in Reqs :
          (NotFoundCause(r1) /\ StorageCause(r2))
          => response[r1].status # response[r2].status

\* requests of call c that executeSwitch committed, by direction
CommittedOn(c, d) ==
    {r \in Reqs : CallOf(r) = c /\ DirOf(r) = d /\ outcome[r] = "committed"}

\* the requests were handled one after the other: AI_TO_HUMAN answered with
\* success, AI_TO_HUMAN again answered with a rejection, HUMAN_TO_AI
\* answered with success
Scenario(c) ==
    /\ NReq >= 3
    /\ \A r \in 1..3 : Done(r) /\ CallOf(r) = c
    /\ DirOf(1) = "AI_TO_HUMAN" /\ response[1].success
    /\ seen[1].mode = "AI_AGENT" /\ seen[1].switchCount = 0
    /\ DirOf(2) = "AI_TO_HUMAN" /\ ~response[2].success
    /\ seen[2].mode = "HUMAN_REP" /\ seen[2].switchCount = 1
    /\ DirOf(3) = "HUMAN_TO_AI" /\ response[3].success
    /\ seen[3].mode = "HUMAN_REP" /\ seen[3].switchCount = 1
    /\ \A r \in Reqs \ (1..3) : outcome[r] # "committed"

\* C10 - switch statistics match commits.  getSwitchStats(callId).total is
\* the number of executeSwitch calls that succeeded on the call, each
\* byDirection count is the number of those with that direction and the two
\* add up to total; after AI_TO_HUMAN (success), AI_TO_HUMAN (rejected),
\* HUMAN_TO_AI (success) the result is total 2, one per direction, and the
\* session's switchCount is 2.
C10_StatsMatchCommits ==
    \A c \in CallIds :
        LET stats == GetSwitchStats(c) IN
        /\ stats.total = Cardinality(CommittedOn(c, "AI_TO_HUMAN")
                                        \cup CommittedOn(c, "HUMAN_TO_AI"))
        /\ stats.byDirection.aiToHuman
              = Cardinality(CommittedOn(c, "AI_TO_HUMAN"))
        /\ stats.byDirection.humanToAi
              = Cardinality(CommittedOn(c, "HUMAN_TO_AI"))
        /\ stats.byDirection.aiToHuman + stats.byDirection.humanToAi
              = stats.total
        /\ Scenario(c)
             => /\ stats.total = 2
                /\ stats.byDirection = [aiToHuman |-> 1, humanToAi |-> 1]
                /\ c \in DOMAIN store
                /\ store[c].switchCount = 2

\* C10 witness: the three requests of the scenario have been answered.
C10_Witness == \E c \in CallIds : Scenario(c)

\* ------------------------------------------- the two backends compared
\* One sequence of store calls is served twice: by a ready Redis client
\* (useInMemory = FALSE, no failing command) and by the in-memory fallback
\* (useInMemory = TRUE).  Both run in the same process on the same clock.

SESSION_TTL == 60 * 60 * 2
TtlMillis == SESSION_TTL * 1000
TickSizes == {1, TtlMillis - 1}

\* JSON.stringify / JSON.parse of a session: the text is the list of the
\* field values in key order
SessionKeys == <<"callId", "status", "mode", "transcript", "switchCount",
                 "endTime">>
Stringify(session) == [i \in 1..Len(SessionKeys) |-> session[SessionKeys[i]]]
Parse(data) ==
    [k \in {SessionKeys[i] : i \in 1..Len(SessionKeys)} |->
        data[CHOOSE i \in 1..Len(SessionKeys) : SessionKeys[i] = k]]

\* Faulty sweep: every entry is dropped, expired or not.
CleanExpired_All(ms, now) == [k \in {} |-> NoEntry]

\* cleanExpired: drop the entries whose expiry lies before now
CleanExpired(ms, now) ==
    [k \in {j \in DOMAIN ms : ~(ms[j].expiry < now)} |-> ms[k]]

\* Faulty fallback write: rewriting a key keeps its old expiry.
MemSet_KeepExpiry(ms, c, data, now) ==
    [k \in DOMAIN ms \cup {c} |->
        IF k # c THEN ms[k]
        ELSE [data |-> data,
              expiry |-> IF c \in DOMAIN ms THEN ms[c].expiry
                         ELSE now + TtlMillis]]

\* inMemoryStore.set(key, { data, expiry: Date.now() + SESSION_TTL * 1000 })
MemSet(ms, c, data, now) ==
    [k \in DOMAIN ms \cup {c} |->
        IF k = c THEN [data |-> data, expiry |-> now + TtlMillis] ELSE ms[k]]

\* Faulty fallback read: the entry is returned whatever its expiry.
MemGet_NoExpiry(ms, c, now) ==
    [store |-> ms,
     ret |-> IF c \in DOMAIN ms THEN Parse(ms[c].data) ELSE NoSession]

\* the fallback branch of getSession: cleanExpired, then the entry if its
\* expiry lies after now
MemGet(ms, c, now) ==
    LET cleaned == CleanExpired(ms, now) IN
    [store |-> cleaned,
     ret |-> IF c \in DOMAIN cleaned /\ cleaned[c].expiry > now
               THEN Parse(cleaned[c].data) ELSE NoSession]

\* Faulty setex: writing one key drops every other key.
Setex_Alone(rs, c, seconds, data, now) ==
    [k \in {c} |-> [data |-> data, expiry |-> now + seconds * 1000]]

\* client.setex(key, seconds, data): the key lives for that many seconds
Setex(rs, c, seconds, data, now) ==
    [k \in DOMAIN rs \cup {c} |->
        IF k = c THEN [data |-> data, expiry |-> now + seconds * 1000]
        ELSE rs[k]]

\* client.get(key): the data, or nil (<<>>) once the key has expired
RedisGet(rs, c, now) ==
    IF c \in DOMAIN rs /\ rs[c].expiry > now THEN rs[c].data ELSE <<>>

Backends == {"redis", "memory"}

\* getSession on one backend: the backend afterwards and the return value
GetOn(b, st, c, now) ==
    IF b = "memory" THEN MemGet(st, c, now)
    ELSE LET data == RedisGet(st, c, now) IN
         [store |-> st,
          ret |-> IF data # <<>> THEN Parse(data) ELSE NoSession]

\* createSession on one backend
CreateOn(b, st, c, session, now) ==
    IF b = "memory" THEN MemSet(st, c, Stringify(session), now)
    ELSE Setex(st, c, SESSION_TTL, Stringify(session), now)

\* updateSession on one backend
UpdateOn(b, st, c, updates, now) ==
    LET g == GetOn(b, st, c, now) IN
    IF g.ret = NoSession THEN g
    ELSE [store |-> CreateOn(b, g.store, c, Merge(g.ret, updates), now),
          ret |-> Merge(g.ret, updates)]

\* appendTranscript on one backend
AppendOn(b, st, c, entry, now) ==
    LET g == GetOn(b, st, c, now) IN
    [store |-> IF g.ret = NoSession THEN g.store
               ELSE CreateOn(b, g.store, c,
                       [g.ret EXCEPT !.transcript = Append(@, entry)], now),
     ret |-> "void"]

\* one call of a store function on one backend
CallOn(b, st, op, c, n, now) ==
    CASE op = "create" ->
           [store |-> CreateOn(b, st, c, NewSession(c), now), ret |-> "void"]
      [] op = "get" -> GetOn(b, st, c, now)
      [] op = "update" ->
           UpdateOn(b, st, c, [status |-> "ENDED", endTime |-> Now], now)
      [] op = "delete" -> [store |-> RemoveKey(st, c), ret |-> "void"]
      [] op = "append" ->
           AppendOn(b, st, c,
                    [speaker |-> "CUSTOMER", text |-> n, timestamp |-> now],
                    now)

TwinOps == {"create", "get", "update", "delete", "append"}
TwinIds == {"c1", "c2"}

\* the next call of the sequence, served by both backends
CallBoth(op, c) ==
    /\ ncalls < MaxCalls
    /\ LET r == CallOn("redis", redisKeys, op, c, ncalls, clock)
           m == CallOn("memory", inMemoryStore, op, c, ncalls, clock) IN
       /\ redisKeys' = r.store
       /\ inMemoryStore' = m.store
       /\ lastCall' = [op |-> op, callId |-> c,
                        had |-> c \in DOMAIN inMemoryStore,
                        redis |-> r.ret, memory |-> m.ret]
    /\ ncalls' = ncalls + 1
    /\ UNCHANGED <<clock, nticks>>
    /\ UNCHANGED <<store, useInMemory, faults, switchLog, lock, taskVars, sideVars,
                   routeVars, connVars, busVars>>

\* time passes between two calls
Advance(dt) ==
    /\ nticks < MaxTicks
    /\ clock' = clock + dt
    /\ nticks' = nticks + 1
    /\ UNCHANGED <<redisKeys, inMemoryStore, ncalls, lastCall>>
    /\ UNCHANGED <<store, useInMemory, faults, switchLog, lock, taskVars, sideVars,
                   routeVars, connVars, busVars>>

NextTwin ==
    \/ \E op \in TwinOps, c \in TwinIds : CallBoth(op, c)
    \/ \E dt \in TickSizes : Advance(dt)

SpecTwin == Init /\ [][NextTwin]_vars

\* ------------------------------------------------- the read-only routes
\* GET /can-switch/:callId/:direction and GET /stats/:callId next to the
\* store calls and to switch commits, on both backends.

\* canSwitch: getSession, then the decision on what it returned
CanSwitchBoth(c, d) ==
    /\ ncalls < MaxCalls
    /\ LET r == GetOn("redis", redisKeys, c, clock)
           m == GetOn("memory", inMemoryStore, c, clock) IN
       /\ redisKeys' = r.store
       /\ inMemoryStore' = m.store
       /\ lastCall' = [op |-> "canSwitch", callId |-> c,
                        had |-> c \in DOMAIN inMemoryStore,
                        redis |-> CanSwitchOn(r.ret, d),
                        memory |-> CanSwitchOn(m.ret, d)]
    /\ ncalls' = ncalls + 1
    /\ UNCHANGED <<clock, nticks>>
    /\ UNCHANGED <<store, useInMemory, faults, switchLog, lock, taskVars, sideVars,
                   routeVars, connVars, busVars>>

\* getSwitchStats: the aggregate over the SwitchLogEntry rows
StatsBoth(c) ==
    /\ ncalls < MaxCalls
    /\ lastCall' = [op |-> "stats", callId |-> c,
                     had |-> c \in DOMAIN inMemoryStore,
                     redis |-> GetSwitchStats(c),
                     memory |-> GetSwitchStats(c)]
    /\ ncalls' = ncalls + 1
    /\ UNCHANGED <<redisKeys, inMemoryStore, clock, nticks>>
    /\ UNCHANGED <<store, useInMemory, faults, switchLog, lock, taskVars, sideVars,
                   routeVars, connVars, busVars>>

\* a successful executeSwitch on both backends: session, SwitchLogEntry,
\* switch event
CommitBoth(c, d) ==
    /\ ncalls < MaxCalls
    /\ LET r == GetOn("redis", redisKeys, c, clock)
           m == GetOn("memory", inMemoryStore, c, clock)
           updates == [mode |-> TargetMode(d),
                       switchCount |-> m.ret.switchCount + 1] IN
       /\ CanSwitchOn(m.ret, d).allowed
       /\ CanSwitchOn(r.ret, d).allowed
       /\ redisKeys' = UpdateOn("redis", redisKeys, c, updates, clock).store
       /\ inMemoryStore' =
             UpdateOn("memory", inMemoryStore, c, updates, clock).store
       /\ lastCall' = [op |-> "switch", callId |-> c,
                        had |-> c \in DOMAIN inMemoryStore,
                        redis |-> UpdateOn("redis", redisKeys, c, updates,
                                           clock).ret,
                        memory |-> UpdateOn("memory", inMemoryStore, c,
                                            updates, clock).ret]
    /\ switchLog' = [switchLog EXCEPT ![c] = Append(@, d)]
    /\ published' = [published EXCEPT ![c] = Append(@, "call:switch")]
    /\ ncalls' = ncalls + 1
    /\ UNCHANGED <<clock, nticks>>
    /\ UNCHANGED <<store, useInMemory, faults, lock, taskVars, sideVars, requestVars,
                   connVars, busVars>>

NextRead ==
    \/ \E op \in TwinOps, c \in TwinIds : CallBoth(op, c)
    \/ \E dt \in TickSizes : Advance(dt)
    \/ \E c \in TwinIds, d \in Directions : CanSwitchBoth(c, d)
    \/ \E c \in CallIds : StatsBoth(c)
    \/ \E c \in CallIds, d \in Directions : CommitBoth(c, d)

SpecRead == Init /\ [][NextRead]_vars

\* ------------------------------------------------- the Redis connection
\* connectRedis, getRedisAsync and the store functions that await them,
\* with the events of the ioredis clients (ready, error, the 3 s timeout,
\* a lost connection).

ConnFns == {"connectRedis", "getRedisAsync"}
StoreFns == {"createSession", "getSession"}

\* redis && redis.status === 'ready'
IsReady(r, status) == r # NoClient /\ status[r] = "ready"

\* Faulty connectRedis: it connects again although the fallback is in use.
ConnectRedis_Retry(uim, r, status, connecting) ==
    IF IsReady(r, status) THEN "client"
    ELSE IF connecting THEN "poll"
    ELSE "start"

\* Faulty connectRedis: every caller starts its own attempt.
ConnectRedis_NoCoalesce(uim, r, status, connecting) ==
    IF uim THEN "null"
    ELSE IF IsReady(r, status) THEN "client"
    ELSE "start"

\* connectRedis up to its first suspension: null in fallback mode, the
\* ready client, the polling loop while another call is connecting, or a
\* new client of its own
ConnectRedis(uim, r, status, connecting) ==
    IF uim THEN "null"
    ELSE IF IsReady(r, status) THEN "client"
    ELSE IF connecting THEN "poll"
    ELSE "start"

\* getRedisAsync: the same two early returns, then connectRedis
GetRedisAsync(uim, r, status, connecting) ==
    IF uim THEN "null"
    ELSE IF IsReady(r, status) THEN "client"
    ELSE ConnectRedis(uim, r, status, connecting)

\* the attempt in flight: the client that is still connecting
InFlight == {a \in Clients : clientStatus[a] = "connecting"}
Unused == {a \in Clients : clientStatus[a] = "unused"}
NextClient == CHOOSE a \in Unused : \A b \in Unused : a <= b

\* the connection promise of a call resolves with client (NoClient: null)
Resolved(k, client) ==
    IF k.fn \in ConnFns
      THEN [k EXCEPT !.pc = "done", !.client = client,
                     !.ret = IF client = NoClient THEN "null" ELSE "client"]
      ELSE [k EXCEPT !.pc = "command", !.client = client]

\* what a store function returns to its caller
Returned(fn, ret) ==
    IF fn = "createSession" THEN "void"
    ELSE IF ret = NoSession THEN "null" ELSE "session"

\* the store function of caller k runs on backend b
RunOn(b, st, k) ==
    IF k.fn = "createSession"
      THEN [store |-> CreateOn(b, st, k.callId, NewSession(k.callId), clock),
            ret |-> "void"]
      ELSE LET g == GetOn(b, st, k.callId, clock) IN
           [store |-> g.store, ret |-> Returned(k.fn, g.ret)]

\* some call of fn for callId c has returned normally
HasReturned(fn, c) ==
    \E j \in Callers :
       /\ callers[j].fn = fn /\ callers[j].callId = c
       /\ callers[j].pc = "done" /\ callers[j].ret = "void"

\* a call is made and runs up to its first suspension
Invoke(k, fn, c) ==
    LET way == IF fn = "connectRedis"
                 THEN ConnectRedis(useInMemory, redis, clientStatus,
                                   isConnecting)
               ELSE IF fn \in StoreFns /\ useInMemory THEN "memory"
               ELSE GetRedisAsync(useInMemory, redis, clientStatus,
                                  isConnecting)
        me == [IdleCaller EXCEPT
                 !.fn = fn, !.callId = c, !.fallback = useInMemory,
                 !.early = (redis = NoClient /\ ~useInMemory),
                 !.written = HasReturned("createSession", c)] IN
    /\ callers[k].pc = "idle"
    /\ IF k = 1 THEN TRUE ELSE callers[k - 1].pc # "idle"
    /\ way = "start" => Unused # {}
    /\ CASE way = "memory" ->
              LET m == RunOn("memory", inMemoryStore, me) IN
              /\ inMemoryStore' = m.store
              /\ callers' = [callers EXCEPT
                               ![k] = [me EXCEPT !.pc = "done",
                                                 !.ret = m.ret]]
              /\ UNCHANGED <<isConnecting, clientStatus>>
         [] way = "null" ->
              /\ callers' = [callers EXCEPT ![k] = Resolved(me, NoClient)]
              /\ UNCHANGED <<inMemoryStore, isConnecting, clientStatus>>
         [] way = "client" ->
              /\ callers' = [callers EXCEPT ![k] = Resolved(me, redis)]
              /\ UNCHANGED <<inMemoryStore, isConnecting, clientStatus>>
         [] way = "poll" ->
              /\ callers' = [callers EXCEPT
                               ![k] = [me EXCEPT
                                         !.pc = "poll", !.polled = TRUE,
                                         !.joined =
                                            IF InFlight = {} THEN NoClient
                                            ELSE CHOOSE a \in InFlight :
                                                   TRUE]]
              /\ UNCHANGED <<inMemoryStore, isConnecting, clientStatus>>
         [] way = "start" ->
              /\ isConnecting' = TRUE
              /\ clientStatus' = [clientStatus EXCEPT
                                    ![NextClient] = "connecting"]
              /\ callers' = [callers EXCEPT
                               ![k] = [me EXCEPT !.pc = "await",
                                                 !.joined = NextClient]]
              /\ UNCHANGED inMemoryStore
    /\ UNCHANGED <<redis, useInMemory, faults, redisKeys>>
    /\ UNCHANGED <<store, switchLog, lock, taskVars, sideVars, routeVars, clock,
                   ncalls, nticks, lastCall, busVars>>

\* the callers whose promise is the one of attempt a
Settle(a, client) ==
    [k \in Callers |->
        IF callers[k].pc = "await" /\ callers[k].joined = a
          THEN Resolved(callers[k], client) ELSE callers[k]]

\* client.on('ready')
OnReady(a) ==
    /\ clientStatus[a] = "connecting"
    /\ clientStatus' = [clientStatus EXCEPT ![a] = "ready"]
    /\ redis' = a
    /\ isConnecting' = FALSE
    /\ callers' = Settle(a, a)
    /\ UNCHANGED <<useInMemory, faults, redisKeys, inMemoryStore>>
    /\ UNCHANGED <<store, switchLog, lock, taskVars, sideVars, routeVars, clock,
                   ncalls, nticks, lastCall, busVars>>

\* client.on('error'): the fallback is chosen only while no client was ever
\* ready; otherwise the handler does nothing and the client gives up
OnError(a) ==
    /\ clientStatus[a] = "connecting"
    /\ IF redis = NoClient /\ ~useInMemory
         THEN /\ useInMemory' = TRUE
              /\ isConnecting' = FALSE
              /\ clientStatus' = [clientStatus EXCEPT ![a] = "closed"]
              /\ callers' = Settle(a, NoClient)
         ELSE /\ clientStatus' = [clientStatus EXCEPT ![a] = "end"]
              /\ UNCHANGED <<useInMemory, isConnecting, callers>>
    /\ UNCHANGED <<redis, faults, redisKeys, inMemoryStore>>
    /\ UNCHANGED <<store, switchLog, lock, taskVars, sideVars, routeVars, clock,
                   ncalls, nticks, lastCall, busVars>>

\* the 3 s timer of the attempt, not cleared by 'ready' or by the fallback:
\* it acts only while no client was ever ready
OnTimeout(a) ==
    /\ clientStatus[a] = "connecting"
    /\ IF redis = NoClient
         THEN /\ useInMemory' = TRUE
              /\ isConnecting' = FALSE
              /\ clientStatus' = [clientStatus EXCEPT ![a] = "closed"]
              /\ callers' = Settle(a, NoClient)
         ELSE UNCHANGED <<useInMemory, isConnecting, clientStatus, callers>>
    /\ UNCHANGED <<redis, faults, redisKeys, inMemoryStore>>
    /\ UNCHANGED <<store, switchLog, lock, taskVars, sideVars, routeVars, clock,
                   ncalls, nticks, lastCall, busVars>>

\* one round of the 100 ms polling loop that ends the wait
Poll(k) ==
    /\ callers[k].pc = "poll"
    /\ useInMemory \/ IsReady(redis, clientStatus)
    /\ callers' = [callers EXCEPT
                     ![k] = Resolved(@, IF useInMemory THEN NoClient
                                        ELSE redis)]
    /\ UNCHANGED <<redis, isConnecting, clientStatus, useInMemory, faults,
                   redisKeys, inMemoryStore>>
    /\ UNCHANGED <<store, switchLog, lock, taskVars, sideVars, routeVars, clock,
                   ncalls, nticks, lastCall, busVars>>

\* the server goes away under a ready client
LoseConnection(a) ==
    /\ clientStatus[a] = "ready"
    /\ faults < MaxFaults
    /\ faults' = faults + 1
    /\ clientStatus' = [clientStatus EXCEPT ![a] = "down"]
    /\ UNCHANGED <<redis, isConnecting, callers, useInMemory, redisKeys,
                   inMemoryStore>>
    /\ UNCHANGED <<store, switchLog, lock, taskVars, sideVars, routeVars, clock,
                   ncalls, nticks, lastCall, busVars>>

\* ioredis reconnects the client by itself (retryStrategy)
Reconnect(a) ==
    /\ clientStatus[a] = "down"
    /\ clientStatus' = [clientStatus EXCEPT ![a] = "ready"]
    /\ UNCHANGED <<redis, isConnecting, callers, useInMemory, faults,
                   redisKeys, inMemoryStore>>
    /\ UNCHANGED <<store, switchLog, lock, taskVars, sideVars, routeVars, clock,
                   ncalls, nticks, lastCall, busVars>>

\* createSession / getSession after `await getRedisAsync()`: the command on
\* the client, or the Map when the client is null.  A rejected SETEX leaves
\* createSession by exception; getSession catches and returns null.
Command(k) ==
    LET me == callers[k] IN
    /\ me.pc = "command"
    /\ IF me.client = NoClient
         THEN LET m == RunOn("memory", inMemoryStore, me) IN
              /\ inMemoryStore' = m.store
              /\ callers' = [callers EXCEPT ![k].pc = "done",
                                            ![k].ret = m.ret]
              /\ UNCHANGED redisKeys
         ELSE IF clientStatus[me.client] = "ready"
           THEN LET r == RunOn("redis", redisKeys, me) IN
                /\ redisKeys' = r.store
                /\ callers' = [callers EXCEPT ![k].pc = "done",
                                              ![k].ret = r.ret]
                /\ UNCHANGED inMemoryStore
           ELSE /\ callers' = [callers EXCEPT
                                 ![k].pc = "done", ![k].failed = TRUE,
                                 ![k].ret = IF me.fn = "createSession"
                                              THEN "threw" ELSE "null"]
                /\ UNCHANGED <<redisKeys, inMemoryStore>>
    /\ UNCHANGED <<redis, isConnecting, clientStatus, useInMemory, faults>>
    /\ UNCHANGED <<store, switchLog, lock, taskVars, sideVars, routeVars, clock,
                   ncalls, nticks, lastCall, busVars>>

NextConn ==
    \/ \E k \in Callers, fn \in ConnFns \cup StoreFns, c \in CallIds :
          Invoke(k, fn, c)
    \/ \E a \in Clients : OnReady(a)
    \/ \E a \in Clients : OnError(a)
    \/ \E a \in Clients : OnTimeout(a)
    \/ \E k \in Callers : Poll(k)
    \/ \E a \in Clients : LoseConnection(a)
    \/ \E a \in Clients : Reconnect(a)
    \/ \E k \in Callers : Command(k)

SpecConn == Init /\ [][NextConn]_vars

\* The same program with its scheduling: a connecting client ends in
\* 'ready', in 'error' or at its 3 s timer, the 100 ms interval of a
\* polling caller keeps firing, a caller past its await runs its command,
\* and a client whose server went away reconnects.
ConnFairness ==
    /\ \A a \in Clients :
          WF_vars(OnReady(a) \/ OnError(a) \/ OnTimeout(a))
    /\ \A a \in Clients : WF_vars(Reconnect(a))
    /\ \A k \in Callers : WF_vars(Poll(k))
    /\ \A k \in Callers : WF_vars(Command(k))

SpecConnLive == SpecConn /\ ConnFairness

\* ------------------------------------- a switch request and the connection
\* The reads of a switch request go through getSession and so through
\* getRedisAsync: the read of the route's canSwitch and the read of the
\* re-validation under the lock are store calls of their own, and the step
\* that uses the session waits for the call to return.
ReadCaller(r) == 2 * r - 1
LockCaller(r) == 2 * r

\* the route calls canSwitch, which calls getSession
RouteRead(r) ==
    /\ LockCaller(r) \in Callers
    /\ pc[r] = "canSwitch"
    /\ Invoke(ReadCaller(r), "getSession", req[r].callId)

\* canSwitch decides once getSession has returned
CheckAllowedRead(r) ==
    /\ LockCaller(r) \in Callers
    /\ callers[ReadCaller(r)].pc = "done"
    /\ CheckAllowed(r)

\* executeSwitch, under the lock, calls getSession again
LockedRead(r) ==
    /\ LockCaller(r) \in Callers
    /\ pc[r] = "locked"
    /\ Invoke(LockCaller(r), "getSession", req[r].callId)

\* the re-validation decides once getSession has returned
RevalidateRead(r) ==
    /\ LockCaller(r) \in Callers
    /\ callers[LockCaller(r)].pc = "done"
    /\ Revalidate(r)

\* the callers that carry no read of a request: store calls made beside
\* the switch requests
FreeCallers ==
    {k \in Callers :
        \A r \in Reqs :
           LockCaller(r) \in Callers => k \notin {ReadCaller(r), LockCaller(r)}}

\* a step of a request's handler
Handler ==
    \E r \in Reqs :
       \/ RouteRead(r) \/ CheckAllowedRead(r) \/ Acquire(r)
       \/ LockedRead(r) \/ RevalidateRead(r) \/ Commit(r)

NextLock ==
    \/ \E c \in CallIds : OnCallStarted(c)
    \/ \E c \in CallIds : OnCallEnded(c)
    \/ \E r \in Reqs, c \in CallIds, d \in Directions :
          LockCaller(r) \in Callers /\ Submit(r, c, d)
    \/ \E k \in FreeCallers, fn \in StoreFns, c \in CallIds : Invoke(k, fn, c)
    \/ \E r \in Reqs : RouteRead(r)
    \/ \E r \in Reqs : CheckAllowedRead(r)
    \/ \E r \in Reqs : Acquire(r)
    \/ \E r \in Reqs : LockedRead(r)
    \/ \E r \in Reqs : RevalidateRead(r)
    \/ \E r \in Reqs : Commit(r)
    \/ \E a \in Clients : OnReady(a)
    \/ \E a \in Clients : OnError(a)
    \/ \E a \in Clients : OnTimeout(a)
    \/ \E k \in Callers : Poll(k)
    \/ \E a \in Clients : LoseConnection(a)
    \/ \E a \in Clients : Reconnect(a)
    \/ \E k \in Callers : Command(k)

\* the event loop runs a handler step whenever one can run, and the
\* connection is scheduled as in SpecConnLive
SpecLock == Init /\ [][NextLock]_vars /\ WF_vars(Handler) /\ ConnFairness

\* ------------------------------------------- EventBus and the dashboards
\* The lifecycle manager and the switch commit publish through the
\* EventBus; each subscriber is a dashboard running the useCallState hook.
\* The operations of the lifecycle manager and the commit are single steps
\* here: what is examined is the fan-out and what the dashboards receive.

\* Faulty fan-out: every subscriber of any call gets the event.
Fanout_Broadcast(sb, ib, c, ev) ==
    [s \in Subscribers |->
        IF \E x \in BusIds : s \in sb[x] THEN Append(ib[s], ev) ELSE ib[s]]

\* publish(callId, kind, payload): the event is queued, in publish order,
\* for every current subscriber of the call
Fanout(sb, ib, c, ev) ==
    [s \in Subscribers |-> IF s \in sb[c] THEN Append(ib[s], ev) ELSE ib[s]]

\* the event with the next sequence number
NextEvent(c, kind, d) ==
    [id |-> Len(sent) + 1, callId |-> c, kind |-> kind, direction |-> d]

\* EventBus.publish as used by every publisher
Publish(c, kind, d) ==
    /\ Len(sent) < MaxEvents
    /\ inbox' = Fanout(subs, inbox, c, NextEvent(c, kind, d))
    /\ sent' = Append(sent, [ev |-> NextEvent(c, kind, d), to |-> subs[c]])
    /\ published' = [published EXCEPT ![c] = Append(@, kind)]

\* Faulty handler: the mode mapping is the wrong way round.
HandleSwitch_Inverted(prev, ev) ==
    [prev EXCEPT !.mode = IF ev.direction = "AI_TO_HUMAN" THEN "AI_AGENT"
                          ELSE "HUMAN_REP",
                 !.switchCount = @ + 1]

\* handleSwitch: mode from the direction, switchCount + 1
HandleSwitch(prev, ev) ==
    [prev EXCEPT !.mode = IF ev.direction = "AI_TO_HUMAN" THEN "HUMAN_REP"
                          ELSE "AI_AGENT",
                 !.switchCount = @ + 1]

\* handleCallEnd
HandleCallEnd(prev) == [prev EXCEPT !.status = "ended"]

\* the handler registered for the event's kind; a transcript update goes
\* to the transcript list and leaves the call state alone
Handle(prev, ev) ==
    CASE ev.kind = "call:switch" -> HandleSwitch(prev, ev)
      [] ev.kind = "call:end" -> HandleCallEnd(prev)
      [] OTHER -> prev

\* joinCall: emit('call:join', callId), which subscribes the socket to the
\* call, and the local state
JoinCall(s, c) ==
    /\ subs' = [subs EXCEPT ![c] = @ \cup {s}]
    /\ callState' = [callState EXCEPT ![s] = [@ EXCEPT !.callId = c,
                                                !.status = "active"]]
    /\ UNCHANGED <<inbox, got, sent, started>>
    /\ UNCHANGED <<store, useInMemory, faults, switchLog, lock, routeVars,
                   taskVars, sideVars, twinVars, connVars>>

\* leaveCall: emit('call:leave', callState.callId) and the state is reset
LeaveCall(s) ==
    /\ callState[s].callId # Null
    /\ subs' = [subs EXCEPT ![callState[s].callId] = @ \ {s}]
    /\ callState' = [callState EXCEPT ![s] = initialCallState]
    /\ UNCHANGED <<inbox, got, sent, started>>
    /\ UNCHANGED <<store, useInMemory, faults, switchLog, lock, routeVars,
                   taskVars, sideVars, twinVars, connVars>>

\* the socket hands the oldest event to the dashboard's handler
Deliver(s) ==
    /\ inbox[s] # <<>>
    /\ callState' = [callState EXCEPT ![s] = Handle(@, Head(inbox[s]))]
    /\ got' = [got EXCEPT ![s] = Append(@, Head(inbox[s]))]
    /\ inbox' = [inbox EXCEPT ![s] = Tail(@)]
    /\ UNCHANGED <<subs, sent, started>>
    /\ UNCHANGED <<store, useInMemory, faults, switchLog, lock, routeVars,
                   taskVars, sideVars, twinVars, connVars>>

\* Faulty start: the session is created whatever is stored.
StartSession_Overwrite(st, c) == CreateSession(st, c, NewSession(c))

\* onCallStarted on the store: a new session unless the call already has
\* one that has not ended
StartSession(st, c) ==
    LET session == GetSession(st, c, FALSE) IN
    IF session # NoSession /\ session.status # "ENDED" THEN st
    ELSE CreateSession(st, c, NewSession(c))

\* onCallStarted
BusStart(c) ==
    /\ Len(started[c]) < MaxStarts
    /\ store' = StartSession(store, c)
    /\ started' = [started EXCEPT
                     ![c] = Append(@, Snapshot(GetSession(store, c, FALSE)))]
    /\ UNCHANGED <<subs, inbox, callState, got, sent>>
    /\ UNCHANGED <<useInMemory, faults, switchLog, lock, routeVars,
                   taskVars, sideVars, twinVars, connVars>>

\* onTranscriptChunk: appendTranscript, then the transcript event
BusChunk(c) ==
    /\ store' = AppendTranscript(store, c, "CUSTOMER")
    /\ Publish(c, "transcript:update", "")
    /\ UNCHANGED <<subs, callState, got, started>>
    /\ UNCHANGED <<useInMemory, faults, switchLog, lock, requestVars,
                   taskVars, sideVars, twinVars, connVars>>

\* a successful executeSwitch: session, SwitchLogEntry, switch event
BusCommit(c, d) ==
    LET session == GetSession(store, c, FALSE) IN
    /\ CanSwitchOn(session, d).allowed
    /\ store' = UpdateSession(store, c,
                   [mode |-> TargetMode(d),
                    switchCount |-> session.switchCount + 1],
                   FALSE, FALSE).store
    /\ switchLog' = [switchLog EXCEPT ![c] = Append(@, d)]
    /\ Publish(c, "call:switch", d)
    /\ UNCHANGED <<subs, callState, got, started>>
    /\ UNCHANGED <<useInMemory, faults, lock, requestVars, taskVars, sideVars,
                   twinVars, connVars>>

\* Faulty cleanup: the associations of the call are kept.
Cleanup_Keep(sb, c) == sb

\* the EventBus releases every subscriber association of the call
Cleanup(sb, c) == [sb EXCEPT ![c] = {}]

\* onCallEnded: status and endTime, the call-end event, then the cleanup
BusEnd(c) ==
    LET session == GetSession(store, c, FALSE) IN
    /\ session # NoSession
    /\ session.status # "ENDED"
    /\ store' = UpdateSession(store, c,
                   [status |-> "ENDED", endTime |-> Now], FALSE, FALSE).store
    /\ Publish(c, "call:end", "")
    /\ subs' = Cleanup(subs, c)
    /\ UNCHANGED <<callState, got, started>>
    /\ UNCHANGED <<useInMemory, faults, switchLog, lock, requestVars,
                   taskVars, sideVars, twinVars, connVars>>

NextBus ==
    \/ \E s \in Subscribers, c \in BusIds : JoinCall(s, c)
    \/ \E s \in Subscribers : LeaveCall(s)
    \/ \E s \in Subscribers : Deliver(s)
    \/ \E c \in CallIds : BusStart(c)
    \/ \E c \in CallIds : BusChunk(c)
    \/ \E c \in CallIds, d \in Directions : BusCommit(c, d)
    \/ \E c \in CallIds : BusEnd(c)

SpecBus == Init /\ [][NextBus]_vars

\* ------------------------------------------- delivery to one dashboard
\* The delivery contract of the EventBus as the dashboard sees it: an event
\* queued for a socket that drops is lost and not replayed, and an event
\* may be handed to the handler more than once.

\* the socket drops with an event in flight: the event is lost
Lose(s) ==
    /\ inbox[s] # <<>>
    /\ inbox' = [inbox EXCEPT ![s] = Tail(@)]
    /\ UNCHANGED <<subs, callState, got, sent, started>>
    /\ UNCHANGED <<store, useInMemory, faults, switchLog, lock, routeVars,
                   taskVars, sideVars, twinVars, connVars>>

\* at-least-once: the event handled last is handed to the handler again
Redeliver(s) ==
    /\ got[s] # <<>>
    /\ Len(got[s]) < MaxEvents
    /\ callState' = [callState EXCEPT
                       ![s] = Handle(@, got[s][Len(got[s])])]
    /\ got' = [got EXCEPT ![s] = Append(@, got[s][Len(got[s])])]
    /\ UNCHANGED <<subs, inbox, sent, started>>
    /\ UNCHANGED <<store, useInMemory, faults, switchLog, lock, routeVars,
                   taskVars, sideVars, twinVars, connVars>>

\* a dashboard and the calls it joins, under the whole delivery contract
NextMirror ==
    \/ \E s \in Subscribers, c \in BusIds : JoinCall(s, c)
    \/ \E s \in Subscribers : Deliver(s)
    \/ \E c \in CallIds : BusStart(c)
    \/ \E c \in CallIds : BusChunk(c)
    \/ \E c \in CallIds, d \in Directions : BusCommit(c, d)
    \/ \E c \in CallIds : BusEnd(c)
    \/ \E s \in Subscribers : Lose(s)
    \/ \E s \in Subscribers : Redeliver(s)

SpecMirror == Init /\ [][NextMirror]_vars

\* ------------------------------------------- the customer's call button
\* CallButton.tsx: the status of the component, the Retell web client it
\* drives, and the setTimeout resets it schedules. Time is in seconds and
\* a timer fires when it is due. The component stays mounted.

EndedDelay == 2
ErrorDelay == 3

\* setTimeout(() => setStatus("idle"), delay) added to the pending timers
Schedule(ts, delay) == Append(ts, [due |-> widgetNow + delay, by |-> callNo])

\* the timers the browser runs next: due, and none due earlier
Due(ts) ==
    {i \in 1..Len(ts) :
        /\ ts[i].due <= widgetNow
        /\ \A j \in 1..Len(ts) : ts[j].due >= ts[i].due}

\* ts without its i-th element
RemoveAt(ts, i) == SubSeq(ts, 1, i - 1) \o SubSeq(ts, i + 1, Len(ts))

ButtonFrame ==
    UNCHANGED <<store, useInMemory, faults, switchLog, lock, routeVars,
                taskVars, twinVars, connVars, busVars, copilotVars>>

\* handleCall with status idle: startCall up to its first await
StartCall ==
    /\ buttonStatus = "idle"
    /\ callNo < MaxButtonCalls
    /\ buttonStatus' = "connecting"
    /\ starting' = starting + 1
    /\ callNo' = callNo + 1
    /\ UNCHANGED <<timers, widgetNow, retellCall, lastReset>>
    /\ ButtonFrame

\* startCall: the microphone and the backend answered, and the Retell
\* client was told to start the call
StartJoins ==
    /\ starting > 0
    /\ starting' = starting - 1
    /\ retellCall' = "joining"
    /\ UNCHANGED <<buttonStatus, timers, widgetNow, callNo, lastReset>>
    /\ ButtonFrame

\* startCall: one of its awaits threw; the catch block
StartFails ==
    /\ starting > 0
    /\ starting' = starting - 1
    /\ buttonStatus' = "error"
    /\ Len(timers) < MaxTimers
    /\ timers' = Schedule(timers, ErrorDelay)
    /\ UNCHANGED <<widgetNow, retellCall, callNo, lastReset>>
    /\ ButtonFrame

\* client.on("call_started")
CallStarted ==
    /\ retellCall = "joining"
    /\ retellCall' = "on"
    /\ buttonStatus' = "active"
    /\ UNCHANGED <<timers, widgetNow, starting, callNo, lastReset>>
    /\ ButtonFrame

\* client.on("call_ended"): the call ended, by stopCall or from far away
CallEnded ==
    /\ retellCall # "off"
    /\ retellCall' = "off"
    /\ buttonStatus' = "ended"
    /\ Len(timers) < MaxTimers
    /\ timers' = Schedule(timers, EndedDelay)
    /\ UNCHANGED <<widgetNow, starting, callNo, lastReset>>
    /\ ButtonFrame

\* client.on("error"); the client may end the call after it
RetellError ==
    /\ retellCall \in {"joining", "on"}
    /\ retellCall' \in {retellCall, "stopping"}
    /\ buttonStatus' = "error"
    /\ Len(timers) < MaxTimers
    /\ timers' = Schedule(timers, ErrorDelay)
    /\ UNCHANGED <<widgetNow, starting, callNo, lastReset>>
    /\ ButtonFrame

\* handleCall with status active: endCall
EndCall ==
    /\ buttonStatus = "active"
    /\ retellCall' = IF retellCall = "off" THEN "off" ELSE "stopping"
    /\ buttonStatus' = "ended"
    /\ Len(timers) < MaxTimers
    /\ timers' = Schedule(timers, EndedDelay)
    /\ UNCHANGED <<widgetNow, starting, callNo, lastReset>>
    /\ ButtonFrame

\* a pending timer runs: setStatus("idle")
FireTimer ==
    \E i \in Due(timers) :
        /\ \A j \in Due(timers) : i <= j
        /\ buttonStatus' = "idle"
        /\ lastReset' = [by |-> timers[i].by, at |-> callNo,
                         from |-> buttonStatus]
        /\ timers' = RemoveAt(timers, i)
        /\ UNCHANGED <<widgetNow, retellCall, starting, callNo>>
        /\ ButtonFrame

\* a second passes with no timer due
Tick ==
    /\ widgetNow < MaxTime
    /\ Due(timers) = {}
    /\ widgetNow' = widgetNow + 1
    /\ UNCHANGED <<buttonStatus, timers, retellCall, starting, callNo,
                   lastReset>>
    /\ ButtonFrame

NextButton ==
    \/ StartCall
    \/ StartJoins
    \/ StartFails
    \/ CallStarted
    \/ CallEnded
    \/ RetellError
    \/ EndCall
    \/ FireTimer
    \/ Tick

SpecButton == Init /\ [][NextButton]_vars

\* ------------------------------------------------- the copilot's context
\* llmService.ts: the context cache and generateCopilotAnalysis. A text is
\* a sequence of fragments, so that a phrase can be looked for inside a
\* word and across the texts that join(" ") puts together.

\* the entries a transcript is made of: what the customer says, and the
\* same words said by the AI
Entries ==
    {[speaker |-> "CUSTOMER", text |-> <<"GAS">>],
     [speaker |-> "CUSTOMER", text |-> <<"leak">>],
     [speaker |-> "CUSTOMER", text |-> <<"is", "sue">>],
     [speaker |-> "AI", text |-> <<"is", "sue">>]}
Transcripts == UNION {[1..n -> Entries] : n \in 0..MaxEntries}

\* toLowerCase, fragment by fragment
ToLowerCase(text) ==
    [i \in 1..Len(text) |-> IF text[i] = "GAS" THEN "gas" ELSE text[i]]

\* texts.join(" ")
RECURSIVE Join(_)
Join(texts) ==
    IF texts = <<>> THEN <<>>
    ELSE IF Len(texts) = 1 THEN texts[1]
    ELSE texts[1] \o <<" ">> \o Join(Tail(texts))

\* hay.includes(needle)
Includes(hay, needle) ==
    \E h \in {hay} :
        \E i \in 0..(Len(h) - Len(needle)) :
            \A j \in 1..Len(needle) : h[i + j] = needle[j]

EmergencyPhrases ==
    {<<"gas", " ", "leak">>, <<"smell", " ", "gas">>,
     <<"rotten", " ", "egg">>, <<"gas", " ", "smell">>}
frustratedWords ==
    {<<"ridiculous">>, <<"unacceptable">>, <<"terrible">>, <<"furious">>,
     <<"angry">>, <<"worst">>, <<"sue">>}
negativeWords ==
    {<<"frustrated">>, <<"annoyed">>, <<"disappointed">>, <<"unhappy">>,
     <<"problem">>, <<"wrong">>}

\* transcript.map(t => t.text.toLowerCase()).join(" ")
AllText(tr) == Join([i \in 1..Len(tr) |-> ToLowerCase(tr[i].text)])

\* the entries of tr said by the customer
RECURSIVE CustomerEntries(_)
CustomerEntries(tr) ==
    IF tr = <<>> THEN <<>>
    ELSE IF tr[1].speaker = "CUSTOMER"
           THEN <<tr[1]>> \o CustomerEntries(Tail(tr))
           ELSE CustomerEntries(Tail(tr))

\* the lower-case text of the last three customer messages (slice(-3))
RecentCustomer(tr) ==
    LET customer == CustomerEntries(tr) IN
    AllText(IF Len(customer) <= 3 THEN customer
            ELSE SubSeq(customer, Len(customer) - 2, Len(customer)))

Sentiment(tr) ==
    IF \E w \in frustratedWords : Includes(RecentCustomer(tr), w)
      THEN "frustrated"
    ELSE IF \E w \in negativeWords : Includes(RecentCustomer(tr), w)
      THEN "negative"
    ELSE "neutral"

\* what updateContextFromTranscript detects in each transcript
Detected ==
    {[transcript |-> tr,
      isEmergency |-> \E ph \in EmergencyPhrases : Includes(AllText(tr), ph),
      customerSentiment |-> Sentiment(tr)] : tr \in Transcripts}

\* updateContextFromTranscript
UpdateContextFromTranscript(context, tr) ==
    LET found == CHOOSE d \in Detected : d.transcript = tr IN
    [context EXCEPT !.isEmergency = found.isEmergency,
                    !.customerSentiment = found.customerSentiment]

\* getContext: the cached context, or a new one
GetContext(cache, sid) ==
    IF sid \in DOMAIN cache THEN cache[sid] ELSE NoContext

\* contextCache.set / the context object updated in place
SetContext(cache, sid, context) ==
    [k \in DOMAIN cache \cup {sid} |-> IF k = sid THEN context ELSE cache[k]]

\* Faulty check: every call is taken for new information.
NeedsUpdate_Always(context, tr) == TRUE

\* needsUpdate of generateCopilotAnalysis
NeedsUpdate(context, tr) ==
    \/ Len(tr) > context.lastAnalyzedIndex
    \/ context.isEmergency
    \/ context.customerSentiment = "frustrated"

GeminiAnswers == {"none", "low", "medium", "high", "critical"}

\* the suggestions and the priority built after the Gemini step: answer is
\* what Gemini gave ("none": no call, null, or an exception)
Finish(call, answer, sentiment) ==
    [call EXCEPT
        !.phase = "done",
        !.suggestions = (IF answer = "none" THEN {} ELSE {"gemini"})
                        \cup (IF sentiment = "frustrated"
                                THEN {"frustrated"} ELSE {}),
        !.priority = IF sentiment = "frustrated" THEN "high"
                     ELSE IF answer = "none" THEN "low" ELSE answer]

CopilotFrame ==
    UNCHANGED <<store, useInMemory, faults, switchLog, lock, routeVars,
                taskVars, twinVars, connVars, busVars, widgetVars>>

\* generateCopilotAnalysis(sessionId, transcript) up to its return or to
\* the await of the Gemini call
Analyse(sid, tr, hasGeminiConfig) ==
    LET context == UpdateContextFromTranscript(GetContext(contextCache, sid),
                                               tr)
        minimal == ~NeedsUpdate(context, tr) /\ context.lastCopilotUpdate > 0
        tracked == [context EXCEPT !.lastAnalyzedIndex = Len(tr),
                                   !.lastCopilotUpdate = copilotNow]
        call == [op |-> "analyse", at |-> copilotNow, len |-> Len(tr),
                 previous |-> IF analyses[sid].op = "analyse"
                                THEN analyses[sid].len ELSE NoPrevious,
                 isEmergency |-> context.isEmergency,
                 customerSentiment |-> context.customerSentiment,
                 minimal |-> minimal, phase |-> "done", suggestions |-> {},
                 priority |-> "low", detached |-> "none"] IN
    /\ copilotNow <= MaxAnalyses
    /\ copilotNow' = copilotNow + 1
    /\ IF minimal
         THEN /\ contextCache' = SetContext(contextCache, sid, context)
              /\ analyses' = [analyses EXCEPT ![sid] = call]
         ELSE /\ contextCache' = SetContext(contextCache, sid, tracked)
              /\ analyses' = [analyses EXCEPT ![sid] =
                   IF context.isEmergency
                     THEN [call EXCEPT !.suggestions = {"emergency"},
                                       !.priority = "critical"]
                   ELSE IF hasGeminiConfig /\ Len(tr) >= 2
                     THEN [call EXCEPT !.phase = "gemini"]
                   ELSE Finish(call, "none", context.customerSentiment)]
    /\ CopilotFrame

\* the Gemini call of the latest analysis of sid is over; the rest of
\* generateCopilotAnalysis reads the sentiment of the context object it
\* holds
GeminiReturns(sid, answer) ==
    /\ analyses[sid].phase = "gemini"
    /\ analyses' = [analyses EXCEPT ![sid] =
          Finish(@, answer,
                 IF @.detached # "none" THEN @.detached
                 ELSE contextCache[sid].customerSentiment)]
    /\ UNCHANGED <<contextCache, copilotNow>>
    /\ CopilotFrame

\* updateContext / generateAgentResponse: the context follows the
\* transcript
UpdateContext(sid, tr) ==
    /\ contextCache' =
          SetContext(contextCache, sid,
             UpdateContextFromTranscript(GetContext(contextCache, sid), tr))
    /\ UNCHANGED <<analyses, copilotNow>>
    /\ CopilotFrame

\* clearContext(sessionId); an analysis waiting for Gemini keeps the
\* context object it holds
ClearContext(sid) ==
    /\ contextCache' = [k \in DOMAIN contextCache \ {sid} |-> contextCache[k]]
    /\ analyses' = [analyses EXCEPT ![sid] =
          IF @.phase = "gemini"
            THEN [@ EXCEPT !.op = "clear",
                           !.detached =
                              IF @ # "none" THEN @
                              ELSE contextCache[sid].customerSentiment]
            ELSE [@ EXCEPT !.op = "clear"]]
    /\ UNCHANGED copilotNow
    /\ CopilotFrame

NextCopilot ==
    \/ \E sid \in SessionIds, tr \in Transcripts, cfg \in BOOLEAN :
          Analyse(sid, tr, cfg)
    \/ \E sid \in SessionIds, answer \in GeminiAnswers :
          GeminiReturns(sid, answer)
    \/ \E sid \in SessionIds, tr \in Transcripts : UpdateContext(sid, tr)
    \/ \E sid \in SessionIds : ClearContext(sid)

SpecCopilot == Init /\ [][NextCopilot]_vars

\* ------------------------------------------------- one call, end to end
\* The lifecycle manager starts the call; from then on its writes
\* (updateSession at the end, appendTranscript) and the switch commits
\* are store calls split at their awaits.
NextCall ==
    \/ \E c \in CallIds : BusStart(c)
    \/ NextStore

SpecCall == Init /\ [][NextCall]_vars

\* ------------------------------------------------ store-level vocabulary
\* task t completes its createSession write in this step
Writes(t) == tasks[t].pc = "store" /\ tasks'[t].pc # "store"
                /\ store' # store

\* the write of a lifecycle writer: updateSession({status, endTime}) or
\* appendTranscript
LifecycleWrite(t) == Writes(t) /\ tasks[t].op \in {"update", "append"}

Stored(c) == c \in DOMAIN store

\* C11: mode and switchCount are written only by committed switches: the
\* write of updateSession (status/endTime) or appendTranscript never
\* changes the stored mode and never lowers the stored switchCount, in any
\* interleaving with executeSwitch.
C11_SwitchFieldsOwned ==
    [][\A t \in TaskIds :
         LET c == tasks[t].callId IN
         (LifecycleWrite(t) /\ Stored(c)) =>
            /\ store'[c].mode = store[c].mode
            /\ store'[c].switchCount >= store[c].switchCount]_vars

\* task t ends its fetch in this step
Fetches(t) == tasks[t].pc = "fetch" /\ tasks'[t].pc # "fetch"

\* C12: late transcript no-op: an appendTranscript call that finds no
\* session stores nothing and returns without error, and the write of an
\* appendTranscript call never makes a session exist for a callId that has
\* none stored (never created, or removed meanwhile).
C12_LateTranscriptNoOp ==
    [][\A t \in TaskIds :
         LET c == tasks[t].callId IN
         tasks[t].op = "append" =>
            /\ (Fetches(t) /\ ~Stored(c)) =>
                  store' = store /\ tasks'[t].pc = "done"
                                 /\ tasks'[t].ret = "null"
            /\ (Writes(t) /\ ~Stored(c)) => c \notin DOMAIN store']_vars

\* C13: update is not an upsert: updateSession on an absent callId returns
\* null and leaves the store unchanged, and the write of an updateSession
\* call never leaves a session stored for a callId that was deleted before
\* the call returned.
C13_UpdateNotUpsert ==
    [][\A t \in TaskIds :
         LET c == tasks[t].callId IN
         tasks[t].op = "update" =>
            /\ (Fetches(t) /\ ~Stored(c)) =>
                  store' = store /\ tasks'[t].pc = "done"
                                 /\ tasks'[t].ret = "null"
            /\ (Writes(t) /\ ~Stored(c)) => c \notin DOMAIN store']_vars

\* the session of c is stored and has not ended
LiveIn(st, c) == c \in DOMAIN st /\ st[c].status = "ACTIVE"

\* C14: the transcript length of a live session never decreases, whatever
\* appendTranscript, updateSession or executeSwitch call writes.
C14_TranscriptMonotone ==
    [][\A t \in TaskIds :
         LET c == tasks[t].callId IN
         (Writes(t) /\ tasks[t].op \in {"append", "update", "switch"}
            /\ LiveIn(store, c) /\ LiveIn(store', c)) =>
            Len(store'[c].transcript) >= Len(store[c].transcript)]_vars

\* C15: transcript entries are kept in arrival order without loss or
\* duplication: the write of every appendTranscript call adds exactly its
\* one entry at the end of the stored transcript, also when two calls for
\* the same callId overlap.
C15_AppendAddsOne ==
    [][\A t \in TaskIds :
         LET c == tasks[t].callId IN
         (Writes(t) /\ tasks[t].op = "append" /\ Stored(c)) =>
            store'[c].transcript = Append(store[c].transcript, Entry(t))]_vars

\* C16: fallback transparency: for every sequence of createSession,
\* getSession, updateSession, deleteSession and appendTranscript calls,
\* each call returns the same value on the in-memory fallback as on the
\* primary backend serving the same sequence.
C16_FallbackTransparent == lastCall.memory = lastCall.redis

\* a getSession that finds the session expired on both backends, the
\* fallback entry still being in the Map
C16_Witness ==
    /\ lastCall.op = "get"
    /\ lastCall.memory = NoSession
    /\ "c1" \in DOMAIN inMemoryStore
    /\ "c1" \in DOMAIN redisKeys
    /\ clock >= TtlMillis

\* ------------------------------------------- connection-level vocabulary
Finished(k) == callers[k].pc = "done"

\* the call of caller k did not get its result from a ready primary
PrimaryUnavailable(k) == callers[k].client = NoClient \/ callers[k].failed

\* C17: createSession never fails for storage unavailability: when the
\* primary is unavailable, at connection time or at the write, the call
\* completes without throwing and the session is in the fallback storage.
C17_CreateNeverFails ==
    \A k \in Callers :
       (Finished(k) /\ callers[k].fn = "createSession") =>
          /\ callers[k].ret = "void"
          /\ PrimaryUnavailable(k) =>
                callers[k].callId \in DOMAIN inMemoryStore

\* C18: a failed read or write against the primary triggers the fallback
\* transition: after a getSession or createSession call whose primary
\* command failed, isUsingInMemory() is true.
C18_FailureSelectsFallback ==
    \A k \in Callers :
       (Finished(k) /\ callers[k].fn \in StoreFns /\ callers[k].failed) =>
          useInMemory

\* C19: the fallback is permanent: once useInMemory is true it stays true,
\* every connectRedis / getRedisAsync call that returns from then on
\* returns null, and no new client is created.
C19_FallbackPermanent ==
    [][useInMemory =>
         /\ useInMemory'
         /\ \A a \in Clients :
               clientStatus[a] = "unused" => clientStatus'[a] = "unused"
         /\ \A k \in Callers :
               /\ (callers[k].pc = "idle" /\ callers'[k].fn \in ConnFns) =>
                     callers'[k].pc = "done"
               /\ (callers'[k].fn \in ConnFns /\ ~Finished(k)
                     /\ callers'[k].pc = "done") =>
                     callers'[k].ret = "null"]_vars

\* a connectRedis / getRedisAsync call made after a failed attempt chose
\* the fallback has returned null
C19_Witness ==
    \E k \in Callers, a \in Clients :
       /\ clientStatus[a] = "closed"
       /\ useInMemory
       /\ callers[k].fn \in ConnFns
       /\ callers[k].fallback
       /\ Finished(k)
       /\ callers[k].ret = "null"

\* caller k has got the result of its connection request
Received(k) == callers[k].pc \in {"command", "done"}

\* caller k arrived while attempt a was in flight and no backend had been
\* selected yet, and waited for it instead of connecting
Coalesced(k, a) ==
    /\ callers[k].early
    /\ callers[k].polled
    /\ callers[k].joined = a

\* C20: connection attempts coalesce: at most one attempt is in flight at
\* any time, and a caller that arrives during the attempt, before a
\* backend is selected, receives that attempt's outcome: null when it
\* failed, a client when it became ready.
C20_AttemptsCoalesce ==
    /\ Cardinality(InFlight) <= 1
    /\ \A k \in Callers, a \in Clients :
          (Coalesced(k, a) /\ Received(k)) =>
             \/ callers[k].client = NoClient /\ clientStatus[a] = "closed"
             \/ callers[k].client # NoClient
                   /\ clientStatus[a] \in {"ready", "down"}

\* two callers waited for the attempt of a third: one call has returned the
\* client, the attempt being the only client ever created
C20_Witness ==
    \E k \in Callers, j \in Callers, a \in Clients :
       /\ k # j
       /\ Coalesced(k, a) /\ Coalesced(j, a)
       /\ Received(k) /\ Received(j)
       /\ callers[k].client = a
       /\ Cardinality(Unused) = MaxAttempts - 1

\* ----------------------------------------------- twin-level vocabulary
\* the step is a call of the sequence
IsCall == ncalls' = ncalls + 1

\* the session of c is readable on backend b holding st
ReadableOn(b, st, c) == GetOn(b, st, c, clock).ret # NoSession

\* C21: idempotent delete: deleteSession on an absent callId completes
\* without error and leaves the store unchanged, and after any
\* deleteSession(callId) a getSession(callId) finds nothing, whether or not
\* the session was there before.
C21_IdempotentDelete ==
    [][(IsCall /\ lastCall'.op = "delete") =>
         LET c == lastCall'.callId IN
         /\ lastCall'.redis = "void" /\ lastCall'.memory = "void"
         /\ c \notin DOMAIN inMemoryStore => inMemoryStore' = inMemoryStore
         /\ c \notin DOMAIN redisKeys => redisKeys' = redisKeys
         /\ ~ReadableOn("memory", inMemoryStore', c)
         /\ ~ReadableOn("redis", redisKeys', c)]_vars

\* a deleteSession of an absent callId has completed, as the second call
\* or later
C21_Witness ==
    /\ lastCall.op = "delete"
    /\ ~lastCall.had
    /\ lastCall.memory = "void"
    /\ ncalls >= 2

\* C22: lazy expiry in the fallback storage: getSession never returns a
\* session whose expiry has passed, get / update / appendTranscript treat
\* an expired entry as absent, and every read and every write leaves no
\* entry behind whose expiry lies before now.
C22_LazyExpiry ==
    [][(IsCall /\ lastCall'.op \in {"create", "get", "update", "append"}) =>
         LET c == lastCall'.callId
             op == lastCall'.op
             expired == c \in DOMAIN inMemoryStore
                           /\ inMemoryStore[c].expiry <= clock IN
         /\ (op \in {"get", "update"} /\ expired) =>
               lastCall'.memory = NoSession
         /\ (op = "append" /\ expired) =>
               ~ReadableOn("memory", inMemoryStore', c)
         /\ \A k \in DOMAIN inMemoryStore' :
               ~(inMemoryStore'[k].expiry < clock)]_vars

TwoHours == 2 * 60 * 60 * 1000

\* C23: the TTL is two hours from the last write: every createSession, and
\* every updateSession / appendTranscript that finds the session, sets the
\* expiry to now + 2 h on either backend; a read extends nothing; a session
\* whose expiry has come is absent.
C23_TtlFromLastWrite ==
    /\ [](\A c \in TwinIds :
            /\ (c \in DOMAIN inMemoryStore
                  /\ clock >= inMemoryStore[c].expiry) =>
                  ~ReadableOn("memory", inMemoryStore, c)
            /\ (c \in DOMAIN redisKeys /\ clock >= redisKeys[c].expiry) =>
                  ~ReadableOn("redis", redisKeys, c))
    /\ [][IsCall =>
            LET c == lastCall'.callId
                op == lastCall'.op
                written == \/ op = "create"
                           \/ /\ op \in {"update", "append"}
                              /\ ReadableOn("memory", inMemoryStore, c) IN
            /\ written =>
                  /\ inMemoryStore'[c].expiry = clock + TwoHours
                  /\ redisKeys'[c].expiry = clock + TwoHours
            /\ op = "get" =>
                  /\ redisKeys' = redisKeys
                  /\ \A k \in DOMAIN inMemoryStore' :
                        inMemoryStore'[k] = inMemoryStore[k]]_vars

\* an updateSession found the session some time after its creation and
\* moved the expiry to two hours from now
C23_Witness ==
    /\ lastCall.op = "update"
    /\ lastCall.memory # NoSession
    /\ clock > 0
    /\ inMemoryStore[lastCall.callId].expiry = clock + TwoHours
    /\ redisKeys[lastCall.callId].expiry = clock + TwoHours

\* task t publishes its switch event in this step
Publishes(t) == tasks[t].pc = "publish" /\ tasks'[t].pc = "done"

SwitchEvents(c) ==
    Cardinality({i \in 1..Len(published[c]) : published[c][i] = "call:switch"})

\* C24: commit effects are ordered and published only after the commit:
\* when executeSwitch publishes its switch event it holds the per-call
\* lock, its SwitchLogEntry is the last of the log, and the stored session
\* carries the new mode and the incremented switchCount; at no time have
\* more switch events been published than the log has entries.
C24_PublishAfterCommit ==
    /\ [](\A c \in CallIds : SwitchEvents(c) <= Len(switchLog[c]))
    /\ [][\A t \in TaskIds :
            LET c == tasks[t].callId IN
            Publishes(t) =>
               /\ lock[c] = t
               /\ Len(switchLog[c]) > 0
               /\ switchLog[c][Len(switchLog[c])] = tasks[t].dir
               /\ Stored(c) =>
                     /\ store[c].mode = TargetMode(tasks[t].dir)
                     /\ store[c].switchCount = tasks[t].count + 1]_vars

\* ------------------------------------------------- bus-level vocabulary
\* what subscriber s has been handed so far: handled, then still queued
ReceivedBy(s) == got[s] \o inbox[s]

\* the published events that had s among their recipients, in publish order
SentTo(s) ==
    LET RECURSIVE Pick(_)
        Pick(i) == IF i > Len(sent) THEN <<>>
                   ELSE IF s \in sent[i].to THEN <<sent[i].ev>> \o Pick(i + 1)
                   ELSE Pick(i + 1) IN
    Pick(1)

SwitchesIn(q) == {i \in 1..Len(q) : q[i].kind = "call:switch"}
LastSwitch(q) == q[CHOOSE i \in SwitchesIn(q) : \A j \in SwitchesIn(q) : j <= i]

C26_SubscriberIsolation ==
    \A s \in Subscribers :
       \A i \in 1..Len(ReceivedBy(s)) :
          LET e == ReceivedBy(s)[i] IN
          /\ e.id \in 1..Len(sent)
          /\ sent[e.id].ev = e
          /\ s \in sent[e.id].to

\* a subscriber that was in another room when the first event of the call
\* was published, and joined before the second, was handed only the second
C26_Witness ==
    \E s \in Subscribers :
       /\ Len(sent) >= 2
       /\ sent[1].to = {}
       /\ s \in sent[2].to
       /\ ReceivedBy(s) = <<sent[2].ev>>
       /\ s \in subs["c2"]

\* the step is onCallEnded of call c
IsEnd(c) ==
    /\ Len(sent') = Len(sent) + 1
    /\ sent'[Len(sent')].ev.kind = "call:end"
    /\ sent'[Len(sent')].ev.callId = c

\* C27: subscription cleanup on call end: when onCallEnded completes the
\* EventBus holds no subscriber for the call, the call-end event was handed
\* to the subscribers present before the cleanup, and a publish for the
\* call from then on reaches nobody.
C27_CleanupOnEnd ==
    [][\A c \in CallIds :
         IsEnd(c) =>
            /\ subs'[c] = {}
            /\ \A s \in subs[c] :
                  inbox'[s] = Append(inbox[s], sent'[Len(sent')].ev)
            /\ Fanout(subs', inbox', c, NextEvent(c, "transcript:update", ""))
                 = inbox']_vars

\* a subscriber has handled the call-end event, the call has no subscriber
\* left, and a transcript event published after the end reached nobody
C27_Witness ==
    \E s \in Subscribers, c \in CallIds, i \in 1..Len(sent) :
       /\ sent[i].ev.kind = "call:end" /\ sent[i].ev.callId = c
       /\ s \in sent[i].to
       /\ sent[i].ev \in {got[s][j] : j \in 1..Len(got[s])}
       /\ subs[c] = {}
       /\ i < Len(sent)
       /\ sent[i + 1].ev.callId = c /\ sent[i + 1].to = {}

\* the step is onCallStarted of call c
IsStart(c) == Len(started'[c]) = Len(started[c]) + 1

EndWrites(t) ==
    /\ tasks[t].op = "update"
    /\ tasks[t].pc = "store"
    /\ tasks'[t].pc = "done" /\ tasks'[t].ret = "ok"

\* C29: call end keeps the session readable: the write of onCallEnded
\* leaves the session stored with status ENDED and its endTime, getSession
\* returns it, and in every reachable state, overlapping writers included,
\* endTime is null exactly when status is not ENDED.
C29_EndKeepsSession ==
    /\ [](\A c \in DOMAIN store :
             (store[c].endTime = Null) <=> (store[c].status # "ENDED"))
    /\ [][\A t \in TaskIds :
            EndWrites(t) =>
               LET c == tasks[t].callId IN
               /\ c \in DOMAIN store'
               /\ store'[c].status = "ENDED"
               /\ store'[c].endTime = Now
               /\ GetSession(store', c, FALSE) = store'[c]]_vars

\* the call ended while a switch commit was under way: both have
\* completed, the switch is in the log, and the ended session is stored
C29_Witness ==
    \E t1, t2 \in TaskIds, c \in CallIds :
       /\ tasks[t1].op = "update" /\ tasks[t1].callId = c
       /\ tasks[t1].pc = "done" /\ tasks[t1].ret = "ok"
       /\ tasks[t2].op = "switch" /\ tasks[t2].callId = c
       /\ tasks[t2].pc = "done"
       /\ Len(switchLog[c]) = 1
       /\ Stored(c)
       /\ store[c].status = "ENDED" /\ store[c].endTime = Now


\* ------------------------------------------------ route-level vocabulary
\* the body of request r has no callId or no valid direction
InvalidBody(q) == q.callId = "" \/ q.direction \notin Directions

\* request r is received in this step
Received30(r) == pc[r] = "idle" /\ pc'[r] # "idle"

\* C30: validation precedes any state access: a request with a missing
\* callId or a direction other than AI_TO_HUMAN or HUMAN_TO_AI is answered
\* with a client error, never reaches canSwitch or executeSwitch, and
\* receiving it changes no session, log or event state.
C30_ValidationFirst ==
    /\ [](\A r \in Reqs :
            (pc[r] # "idle" /\ InvalidBody(req[r])) =>
               /\ pc[r] = "done"
               /\ response[r].status = 400
               /\ ~response[r].success
               /\ validated[r] = NoSession
               /\ commitNo[r] = 0)
    /\ [][\A r \in Reqs :
            (Received30(r) /\ InvalidBody(req'[r])) =>
               UNCHANGED <<store, switchLog, published, lock, faults>>]_vars

\* a body with an unknown direction was rejected for a call whose session
\* is stored and could have been switched, and nothing was switched
C30_Witness ==
    \E r \in Reqs, c \in CallIds :
       /\ pc[r] = "done"
       /\ req[r].callId = c /\ req[r].direction = "SIDEWAYS"
       /\ response[r].status = 400
       /\ Stored(c) /\ store[c].status = "ACTIVE"
       /\ store[c].switchCount = 0
       /\ switchLog[c] = <<>>
       /\ \E r2 \in Reqs : pc[r2] = "done" /\ req[r2].callId = MissingCallId


\* ------------------------------------------------- read-level vocabulary
\* the step is a call of canSwitch or getSwitchStats
IsRead == IsCall /\ lastCall'.op \in {"canSwitch", "stats"}

\* the entries of st that have not expired: the sessions a reader can get,
\* each with its expiry
LiveEntries(st) == [k \in {j \in DOMAIN st : st[j].expiry > clock} |-> st[k]]

\* C31: canSwitch and getSwitchStats are read-only: a call of either one,
\* wherever it falls among the other operations, leaves the session of
\* every callId, the switch log and the published events as they were.
C31_ReadOnly ==
    [][IsRead =>
         /\ LiveEntries(inMemoryStore') = LiveEntries(inMemoryStore)
         /\ LiveEntries(redisKeys') = LiveEntries(redisKeys)
         /\ switchLog' = switchLog
         /\ published' = published]_vars

\* canSwitch answered "allowed" for a call with a committed switch, whose
\* session is still stored with that switch
C31_Witness ==
    /\ lastCall.op = "canSwitch"
    /\ lastCall.callId = "c1"
    /\ lastCall.memory.allowed
    /\ switchLog["c1"] = <<"AI_TO_HUMAN">>
    /\ "c1" \in DOMAIN LiveEntries(inMemoryStore)
    /\ Parse(inMemoryStore["c1"].data).switchCount = 1


\* what getSession returns for c on backend b holding st
SessionOn(b, st, c) == GetOn(b, st, c, clock).ret

\* the partial session handed to updateSession in this step: the end of
\* the call, or the mode and count of a switch commit
PartialOf(prev) ==
    IF lastCall'.op = "update" THEN [status |-> "ENDED", endTime |-> Now]
    ELSE [mode |-> TargetMode(switchLog'[lastCall'.callId]
                                [Len(switchLog'[lastCall'.callId])]),
          switchCount |-> prev.switchCount + 1]

\* updateSession on backend b, from st to st2 with return value ret, is a
\* shallow merge that touches the session of its callId only
MergedOn(b, st, st2, ret) ==
    LET c == lastCall'.callId
        prev == SessionOn(b, st, c)
        partial == PartialOf(prev) IN
    prev # NoSession =>
       /\ \A k \in DOMAIN prev :
             ret[k] = IF k \in DOMAIN partial THEN partial[k] ELSE prev[k]
       /\ SessionOn(b, st2, c) = ret
       /\ \A c2 \in DOMAIN LiveEntries(st) \ {c} :
             c2 \in DOMAIN st2 /\ st2[c2] = st[c2]

\* C32: updateSession is a shallow merge with a frame: when the session
\* exists, the returned and stored session has the partial's value for
\* every key of the partial and the previous value for every other key,
\* and the sessions stored under the other callIds are unchanged.
C32_ShallowMergeFrame ==
    [][(IsCall /\ lastCall'.op \in {"update", "switch"}) =>
         /\ MergedOn("memory", inMemoryStore, inMemoryStore',
                     lastCall'.memory)
         /\ MergedOn("redis", redisKeys, redisKeys', lastCall'.redis)]_vars

\* updateSession ended a call whose session had a transcript entry, and
\* the entry is still there
C32_Witness ==
    /\ lastCall.op = "update"
    /\ lastCall.memory # NoSession
    /\ lastCall.memory.status = "ENDED"
    /\ Len(lastCall.memory.transcript) = 1
    /\ Len(SessionOn("redis", redisKeys, lastCall.callId).transcript) = 1


\* caller k is inside connectRedis / getRedisAsync, waiting for its promise
Waiting(k) == callers[k].pc \in {"await", "poll"}

\* C33: every connection request eventually resolves: a caller waiting in
\* connectRedis or getRedisAsync, on its own attempt or polling another
\* one, before or after a ready connection was lost, eventually gets a
\* ready client or null.
C33_RequestsResolve ==
    \A k \in Callers : Waiting(k) ~> ~Waiting(k)


\* C34: read-your-writes across backend selection: a getSession(callId)
\* made after a createSession(callId, s) has returned, with no delete, no
\* other write and no expiry in between, returns s, whichever backend each
\* of the two calls used.
C34_ReadYourWrites ==
    \A k \in Callers :
       (callers[k].fn = "getSession" /\ callers[k].written
          /\ callers[k].pc = "done") => callers[k].ret = "session"


\* the direction the n-th committed switch of a call has when the
\* directions alternate from AI_TO_HUMAN
NthDirection(n) == IF n % 2 = 1 THEN "AI_TO_HUMAN" ELSE "HUMAN_TO_AI"

\* the session of c was created once, by onCallStarted, and never deleted
CreatedOnce(c) ==
    /\ Len(started[c]) = 1
    /\ \A t \in TaskIds : tasks[t].op \notin {"create", "delete"}

\* C35: switch directions alternate: the SwitchLogEntry rows of a call, in
\* commit order, are AI_TO_HUMAN, HUMAN_TO_AI, AI_TO_HUMAN, ..., and every
\* stored session has mode AI_AGENT exactly when its switchCount is even.
\* Stated for a call whose session is created once and never deleted.
C35_DirectionsAlternate ==
    \A c \in CallIds :
       CreatedOnce(c) =>
          /\ \A i \in 1..Len(switchLog[c]) :
                switchLog[c][i] = NthDirection(i)
          /\ c \in DOMAIN store =>
                ((store[c].mode = "AI_AGENT")
                    <=> (store[c].switchCount % 2 = 0))


\* ------------------------------------------------- lock-level vocabulary
\* request r is inside executeSwitch
InExecute(r) == pc[r] \in {"execute", "locked", "commit"}

\* the lock of call c is held by a request that is inside its locked
\* section for c
HeldInSection(c) ==
    lock[c] # NoReq =>
       /\ pc[lock[c]] \in {"locked", "commit"}
       /\ req[lock[c]].callId = c

\* C36: the per-call lock is always released: the lock is held only
\* inside the locked section, a request that has ended has an answer and
\* holds no lock, and every executeSwitch call comes to its end, so that
\* from some point on no request is inside executeSwitch.
C36_LockReleased ==
    /\ [](\A c \in CallIds : HeldInSection(c))
    /\ [](\A r \in Reqs :
            pc[r] = "done" =>
               /\ response[r] # NoResponse
               /\ \A c \in CallIds : lock[c] # r)
    /\ <>[](\A r \in Reqs : ~InExecute(r))


\* the step is a call of createSession, updateSession, deleteSession or
\* appendTranscript
IsWrite == IsCall /\ lastCall'.op \in {"create", "update", "delete", "append"}

\* the entry of every live callId other than c is in st2 as it was in st
OthersKept(st, st2, c) ==
    \A b \in DOMAIN LiveEntries(st) \ {c} :
        b \in DOMAIN st2 /\ st2[b] = st[b]

\* C37: calls are independent in the store: createSession, updateSession,
\* deleteSession and appendTranscript on one callId leave the stored session
\* and the expiry of every other live callId unchanged, on the Redis backend
\* and on the in-memory fallback.
C37_CallsIndependent ==
    [][IsWrite =>
         /\ OthersKept(redisKeys, redisKeys', lastCall'.callId)
         /\ OthersKept(inMemoryStore, inMemoryStore', lastCall'.callId)]_vars

\* appendTranscript has just rewritten c1 while c2 is live on both backends
C37_Witness ==
    /\ lastCall.op = "append"
    /\ lastCall.callId = "c1"
    /\ "c1" \in DOMAIN LiveEntries(redisKeys)
    /\ Len(Parse(redisKeys["c1"].data).transcript) = 1
    /\ "c2" \in DOMAIN LiveEntries(redisKeys)
    /\ "c2" \in DOMAIN LiveEntries(inMemoryStore)


\* the positions in sent of the switch events of call c
SwitchesSent(c) ==
    {i \in 1..Len(sent) :
        sent[i].ev.callId = c /\ sent[i].ev.kind = "call:switch"}

\* dashboard s joined call c before the first switch of c: the first switch
\* event of c was published to s, or c has had no switch and s has joined
JoinedBeforeFirstSwitch(s, c) ==
    IF SwitchesSent(c) = {} THEN s \in subs[c]
    ELSE \E i \in SwitchesSent(c) :
            /\ \A j \in SwitchesSent(c) : i <= j
            /\ s \in sent[i].to

\* s has no switch event waiting to be handled
SwitchesHandled(s) ==
    \A i \in 1..Len(inbox[s]) : inbox[s][i].kind # "call:switch"

\* C38: the dashboard mirrors the canonical switch state: a dashboard that
\* joined a call before its first switch has, once it has handled the switch
\* events delivered to it, the mode and the switchCount of the stored
\* session, under the delivery contract of the EventBus (an event may be
\* handed over more than once, a dropped socket misses it, no replay).
C38_DashboardMirrors ==
    \A s \in Subscribers, c \in CallIds :
        (/\ Len(started[c]) = 1
         /\ Stored(c)
         /\ JoinedBeforeFirstSwitch(s, c)
         /\ SwitchesHandled(s)) =>
            /\ callState[s].mode = store[c].mode
            /\ callState[s].switchCount = store[c].switchCount


\* C39: the call button's status is never reset by a stale timer: once a
\* new call has moved the status to connecting or active, no reset
\* scheduled before that call began (by an earlier endCall, call_ended
\* event or error) sets the status back to idle while the call is still
\* connecting or active.
C39_NoStaleReset ==
    lastReset.from \in {"connecting", "active"} =>
        lastReset.by >= lastReset.at


\* the step is a generateCopilotAnalysis call for session sid
IsAnalyse(sid) ==
    copilotNow' = copilotNow + 1 /\ analyses'[sid].at = copilotNow

\* C40: copilot analysis only updates on new information: with no
\* gas-emergency phrase in the transcript and no frustrated sentiment, a
\* generateCopilotAnalysis call whose transcript is no longer than at the
\* previous analysis of the session returns no suggestion with priority
\* low and leaves lastAnalyzedIndex and lastCopilotUpdate as they were;
\* the first call of a session, and the first after clearContext, is a
\* full analysis that sets both.
C40_OnlyNewInformation ==
    [][\A sid \in SessionIds :
         IsAnalyse(sid) =>
            LET call == analyses'[sid] IN
            /\ (/\ call.previous # NoPrevious
                /\ ~call.isEmergency
                /\ call.customerSentiment # "frustrated"
                /\ call.len <= call.previous) =>
                  /\ call.phase = "done"
                  /\ call.suggestions = {}
                  /\ call.priority = "low"
                  /\ sid \in DOMAIN contextCache
                  /\ contextCache'[sid].lastAnalyzedIndex =
                        contextCache[sid].lastAnalyzedIndex
                  /\ contextCache'[sid].lastCopilotUpdate =
                        contextCache[sid].lastCopilotUpdate
            /\ call.previous = NoPrevious =>
                  /\ ~call.minimal
                  /\ contextCache'[sid].lastAnalyzedIndex = call.len
                  /\ contextCache'[sid].lastCopilotUpdate = copilotNow]_vars

\* a call with a shorter transcript than the previous analysis came back
\* empty, and the context still has the index of the longer one
C40_Witness ==
    /\ analyses["s1"].op = "analyse"
    /\ analyses["s1"].minimal
    /\ analyses["s1"].previous = 2
    /\ analyses["s1"].len = 1
    /\ analyses["s1"].suggestions = {}
    /\ contextCache["s1"].lastAnalyzedIndex = 2

====
